---- MODULE Spec2Model ----
(***************************************************************************)
(* A model of sudapy: the CRS registry helpers (crs/registry.py) and the   *)
(* terrain helpers (raster/ops.py).                                        *)
(*                                                                         *)
(* Every operation modelled here is a function of its arguments, so a      *)
(* behaviour is one call: Init draws the call (function and arguments)     *)
(* and one action per function applies it and records how it ended.        *)
(*                                                                         *)
(* Floating-point numbers are fixed-point integers: a coordinate is a      *)
(* count of 1/DegUnits degree, a terrain quantity (gradient, angle in      *)
(* radians, intensity) a count of 1/FP, with the IEEE values inf, -inf     *)
(* and nan kept as records of their own.                                   *)
(***************************************************************************)
EXTENDS Integers, Sequences, FiniteSets, TLC

VARIABLES call, ret

vars == <<call, ret>>

\* No call has ended yet.
Pending == [kind |-> "pending"]

Return(v) == [kind |-> "return", value |-> v]

(***************************************************************************)
(* crs/registry.py                                                         *)
(***************************************************************************)

\* Coordinates are counted in 1/DegUnits of a degree.
DegUnits == 2

Deg(d) == d * DegUnits

\* Longitudes: every representable value from -181 to 181 degrees, and 200.
LonValues == (Deg(-181) .. Deg(181)) \cup {Deg(200)}

\* Latitudes: the poles, the equator, the values next to each, and values
\* out of range.
LatValues ==
    {Deg(-100), Deg(-90) - 1, Deg(-90), Deg(-5), -1, 0, 1, Deg(15), Deg(90),
     Deg(90) + 1, Deg(100)}

LonInRangeWide(lon) == Deg(-360) <= lon /\ lon <= Deg(360)

\* -180 <= lon <= 180
LonInRange(lon) == Deg(-180) <= lon /\ lon <= Deg(180)

\* -90 <= lat <= 90
LatInRange(lat) == Deg(-90) <= lat /\ lat <= Deg(90)

\* int(math.floor((lon + 180) / 6)) + 1; \div rounds toward minus infinity.
ZoneNumberCapped(lon) ==
    IF lon = Deg(180) THEN 60 ELSE ((lon + Deg(180)) \div Deg(6)) + 1

ZoneNumber(lon) == ((lon + Deg(180)) \div Deg(6)) + 1

HemisphereStrict(lat) == IF lat > 0 THEN "N" ELSE "S"

Hemisphere(lat) == IF lat >= 0 THEN "N" ELSE "S"

BaseEpsg(hemisphere) == IF hemisphere = "N" THEN 32600 ELSE 32700

adindan_map_ngn == [z \in {35, 36, 37} |-> 26300 + z - 4]

\* adindan_map = {35: 20135, 36: 20136, 37: 20137}
adindan_map == [z \in {35, 36, 37} |-> 20100 + z]

HasAdindanAnyHemisphere(zone_number, hemisphere) ==
    zone_number \in DOMAIN adindan_map

HasAdindan(zone_number, hemisphere) ==
    zone_number \in DOMAIN adindan_map /\ hemisphere = "N"

Wgs84Suggestion(zone_number, hemisphere) ==
    [epsg       |-> BaseEpsg(hemisphere) + zone_number,
     zone       |-> zone_number,
     hemisphere |-> hemisphere,
     name       |-> "WGS 84 / UTM zone " \o ToString(zone_number) \o hemisphere,
     datum      |-> "WGS 84"]

AdindanSuggestion(zone_number, hemisphere) ==
    [epsg       |-> adindan_map[zone_number],
     zone       |-> zone_number,
     hemisphere |-> hemisphere,
     name       |-> "Adindan / UTM zone " \o ToString(zone_number) \o "N",
     datum      |-> "Adindan"]

SuggestionsLegacyFirst(zone_number, hemisphere) ==
    IF HasAdindan(zone_number, hemisphere)
    THEN <<AdindanSuggestion(zone_number, hemisphere),
           Wgs84Suggestion(zone_number, hemisphere)>>
    ELSE <<Wgs84Suggestion(zone_number, hemisphere)>>

\* The list built by suggest_utm_zone: the WGS 84 entry, then the appended
\* Adindan entry when the zone has one.
Suggestions(zone_number, hemisphere) ==
    IF HasAdindan(zone_number, hemisphere)
    THEN Append(<<Wgs84Suggestion(zone_number, hemisphere)>>,
                AdindanSuggestion(zone_number, hemisphere))
    ELSE <<Wgs84Suggestion(zone_number, hemisphere)>>

\* raise ValueError(f"<parameter> {value} out of range <range>"): the message
\* is kept as its three parts, the value in coordinate units.
RangeError(parameter, value, range) ==
    [kind |-> "raise", exc |-> "ValueError",
     msg  |-> <<parameter, value, " out of range " \o range>>]

suggest_utm_zone(lon, lat) ==
    IF ~LonInRange(lon) THEN RangeError("Longitude", lon, "[-180, 180]")
    ELSE IF ~LatInRange(lat) THEN RangeError("Latitude", lat, "[-90, 90]")
    ELSE Return(Suggestions(ZoneNumber(lon), Hemisphere(lat)))

\* EPSG codes passed to validate_epsg, and the codes the projection library's
\* database resolves among them.
EpsgValues == {0, 4326, 20136, 32636, 32661, 99999}

EpsgDatabase == {4326, 20136, 32636, 32661}

\* What CRS.from_epsg may raise for a code it cannot resolve: subclasses of
\* Exception.
LibraryExceptions == {"pyproj.exceptions.CRSError", "TypeError", "ValueError",
                      "RuntimeError"}

\* CRS.from_epsg(epsg): the handle of the code, or the exception exc.
CRS_from_epsg(epsg, exc) ==
    IF epsg \in EpsgDatabase
    THEN Return([to_epsg |-> epsg])
    ELSE [kind |-> "raise", exc |-> exc]

\* except Exception
CaughtOnlyCRSError(exc) == exc = "pyproj.exceptions.CRSError"

Caught(exc) == exc \in LibraryExceptions

CRSError(message, hint, cause) ==
    [kind |-> "raise", exc |-> "CRSError", msg |-> message, hint |-> hint,
     cause |-> cause]

validate_epsg(epsg, exc) ==
    LET r == CRS_from_epsg(epsg, exc)
    IN IF r.kind = "raise" /\ Caught(r.exc)
       THEN CRSError(<<"Invalid EPSG code: ", epsg>>,
                     "Use 'sudapy crs list' to see common Sudan CRS presets.",
                     r.exc)
       ELSE r

CrsCalls ==
    [fn : {"suggest_utm_zone"}, lon : LonValues, lat : LatValues]
    \cup [fn : {"validate_epsg"}, epsg : EpsgValues]

Init == call \in CrsCalls /\ ret = Pending

SuggestUtmZone ==
    /\ ret = Pending
    /\ call.fn = "suggest_utm_zone"
    /\ ret' = suggest_utm_zone(call.lon, call.lat)
    /\ UNCHANGED call

ValidateEpsg ==
    /\ ret = Pending
    /\ call.fn = "validate_epsg"
    /\ \E exc \in LibraryExceptions : ret' = validate_epsg(call.epsg, exc)
    /\ UNCHANGED call

Next == SuggestUtmZone \/ ValidateEpsg

Spec == Init /\ [][Next]_vars

(***************************************************************************)
(* Properties of suggest_utm_zone and validate_epsg, checked under Spec.   *)
(***************************************************************************)

\* A suggest_utm_zone call that has ended.
SuggestDone == call.fn = "suggest_utm_zone" /\ ret # Pending

\* The arguments are within the documented ranges.
ValidLonLat ==
    /\ -180 * DegUnits <= call.lon /\ call.lon <= 180 * DegUnits
    /\ -90 * DegUnits <= call.lat /\ call.lat <= 90 * DegUnits

\* C1: for every lon in [-180, 180] and lat in [-90, 90], suggest_utm_zone
\* returns at least one suggestion and every suggestion's zone is in 1..60.
C1_ZoneWithin1To60 ==
    (SuggestDone /\ ValidLonLat) =>
        /\ ret.kind = "return"
        /\ Len(ret.value) >= 1
        /\ \A i \in 1 .. Len(ret.value) : ret.value[i].zone \in 1 .. 60

\* C2: for every valid (lon, lat) the reported zone z is floor((lon+180)/6)+1,
\* that is 6(z-1) <= lon+180 < 6z, with no special case at lon = -180, at
\* lon = 180 or at a multiple of 6 degrees.
C2_ZoneIsFloorFormula ==
    (SuggestDone /\ ValidLonLat) =>
        /\ ret.kind = "return"
        /\ \A i \in 1 .. Len(ret.value) :
              LET z == ret.value[i].zone
              IN /\ 6 * DegUnits * (z - 1) <= call.lon + 180 * DegUnits
                 /\ call.lon + 180 * DegUnits < 6 * DegUnits * z

\* The call at lon = 180 exactly has ended with the zone the formula gives, 61.
C2_Witness ==
    /\ SuggestDone /\ ValidLonLat
    /\ call.lon = 180 * DegUnits
    /\ ret.kind = "return" /\ ret.value[1].zone = 61

\* C3: for every valid (lon, lat) every suggestion has hemisphere "N" when
\* lat >= 0 and "S" when lat < 0, and the suggestions of one result share
\* their zone and hemisphere.
C3_HemisphereFollowsLat ==
    (SuggestDone /\ ValidLonLat) =>
        /\ ret.kind = "return"
        /\ \A i \in 1 .. Len(ret.value) :
              /\ (call.lat >= 0) => ret.value[i].hemisphere = "N"
              /\ (call.lat < 0) => ret.value[i].hemisphere = "S"
              /\ ret.value[i].zone = ret.value[1].zone
              /\ ret.value[i].hemisphere = ret.value[1].hemisphere

\* A call on the equator has ended with two suggestions, both Northern.
C3_Witness ==
    /\ SuggestDone /\ ValidLonLat
    /\ call.lat = 0
    /\ ret.kind = "return" /\ Len(ret.value) = 2
    /\ ret.value[2].hemisphere = "N"

\* C4: for every valid (lon, lat) the element at index 0 is the WGS 84
\* suggestion, with epsg 32600 + zone in the North and 32700 + zone in the
\* South; an Adindan suggestion is never at index 0.
C4_FirstIsWgs84 ==
    (SuggestDone /\ ValidLonLat) =>
        /\ ret.kind = "return"
        /\ ret.value[1].datum = "WGS 84"
        /\ ret.value[1].datum # "Adindan"
        /\ (ret.value[1].hemisphere = "N") =>
               ret.value[1].epsg = 32600 + ret.value[1].zone
        /\ (ret.value[1].hemisphere = "S") =>
               ret.value[1].epsg = 32700 + ret.value[1].zone

\* A call in a zone with an Adindan alternative has ended: two suggestions,
\* the WGS 84 one (32636) first.
C4_Witness ==
    /\ SuggestDone /\ ValidLonLat
    /\ ret.kind = "return" /\ Len(ret.value) = 2
    /\ ret.value[1].epsg = 32636 /\ ret.value[2].datum = "Adindan"

\* C5: a second suggestion is returned exactly when the hemisphere is North
\* and the zone is 35, 36 or 37; it has datum "Adindan" and epsg 20135, 20136
\* or 20137 for its zone; otherwise the result has exactly one element.
C5_LegacyOnlyNorth35To37 ==
    (SuggestDone /\ ValidLonLat) =>
        /\ ret.kind = "return"
        /\ Len(ret.value) \in {1, 2}
        /\ Len(ret.value) = 2 <=>
              /\ ret.value[1].hemisphere = "N"
              /\ ret.value[1].zone \in {35, 36, 37}
        /\ Len(ret.value) = 2 =>
              /\ ret.value[2].datum = "Adindan"
              /\ ret.value[1].zone = 35 => ret.value[2].epsg = 20135
              /\ ret.value[1].zone = 36 => ret.value[2].epsg = 20136
              /\ ret.value[1].zone = 37 => ret.value[2].epsg = 20137

\* A Southern call in zone 36 has ended with the single WGS 84 suggestion.
C5_Witness ==
    /\ SuggestDone /\ ValidLonLat
    /\ call.lat < 0
    /\ ret.kind = "return" /\ Len(ret.value) = 1
    /\ ret.value[1].zone = 36 /\ ret.value[1].epsg = 32736

\* C6: suggest_utm_zone fails with the out-of-range error (ValueError) and
\* returns nothing whenever lon is outside [-180, 180] or lat is outside
\* [-90, 90]; the message names an offending parameter, its value and its
\* valid range.
C6_OutOfRangeRaises ==
    (SuggestDone /\ ~ValidLonLat) =>
        /\ ret.kind = "raise"
        /\ ret.exc = "ValueError"
        /\ \/ /\ ret.msg[1] = "Longitude"
              /\ ret.msg[2] = call.lon
              /\ ret.msg[3] = " out of range [-180, 180]"
              /\ (call.lon < -180 * DegUnits \/ call.lon > 180 * DegUnits)
           \/ /\ ret.msg[1] = "Latitude"
              /\ ret.msg[2] = call.lat
              /\ ret.msg[3] = " out of range [-90, 90]"
              /\ (call.lat < -90 * DegUnits \/ call.lat > 90 * DegUnits)

\* The call suggest_utm_zone(200, 15) has ended with the Longitude error.
C6_Witness ==
    /\ SuggestDone
    /\ call.lon = 200 * DegUnits /\ call.lat = 15 * DegUnits
    /\ ret.kind = "raise" /\ ret.msg[1] = "Longitude"

\* C7: validate_epsg raises CRSError with the hint naming 'sudapy crs list'
\* whenever the projection library cannot resolve the code, whatever the
\* library raised; when the code resolves it returns the handle of that code.
C7_ValidateEpsg ==
    (call.fn = "validate_epsg" /\ ret # Pending) =>
        IF call.epsg \in EpsgDatabase
        THEN ret.kind = "return" /\ ret.value.to_epsg = call.epsg
        ELSE /\ ret.kind = "raise"
             /\ ret.exc = "CRSError"
             /\ ret.hint =
                  "Use 'sudapy crs list' to see common Sudan CRS presets."

\* validate_epsg(0) has ended with CRSError after the library raised TypeError.
C7_Witness ==
    /\ call.fn = "validate_epsg" /\ call.epsg = 0
    /\ ret.kind = "raise" /\ ret.exc = "CRSError" /\ ret.cause = "TypeError"

(***************************************************************************)
(* raster/ops.py: numpy's float arithmetic in fixed point.                 *)
(*                                                                         *)
(* A finite float is Fin(v), v counting 1/FP; PosInf, NegInf and NaN are   *)
(* the IEEE values a division by a zero cell spacing produces.  Signed     *)
(* zeros are not kept: the only place they matter, arctan2 at (0, 0), is   *)
(* multiplied by sin(slope) = 0 in the hillshade.                          *)
(***************************************************************************)

\* Resolution of the fixed-point numbers: units per 1.0.
FP == 1000

Num(n) == n * FP

Fin(v) == [t |-> "fin", v |-> v]

PosInf == [t |-> "inf", v |-> 1]

NegInf == [t |-> "inf", v |-> -1]

NaN == [t |-> "nan", v |-> 0]

IsNaN(x) == x.t = "nan"

IsInf(x) == x.t = "inf"

Abs(n) == IF n < 0 THEN -n ELSE n

Sign(n) == IF n > 0 THEN 1 ELSE IF n < 0 THEN -1 ELSE 0

\* a / b rounded toward zero, b # 0.
Quot(a, b) == Sign(a) * Sign(b) * (Abs(a) \div Abs(b))

\* Fixed-point product and quotient of finite numbers.
MulFP(a, b) == Quot(a * b, FP)

DivFP(a, b) == Quot(a * FP, b)

\* pi, pi/2 and 2 pi in fixed point.
PI == (355 * FP) \div 113

HalfPi == PI \div 2

TwoPi == 2 * PI

\* Largest n in lo .. hi - 1 with n * n <= v, given lo * lo <= v < hi * hi.
RECURSIVE SqrtBetween(_, _, _)
SqrtBetween(lo, hi, v) ==
    IF hi - lo <= 1 THEN lo
    ELSE LET mid == (lo + hi) \div 2
         IN IF mid * mid <= v THEN SqrtBetween(mid, hi, v)
            ELSE SqrtBetween(lo, mid, v)

\* floor(sqrt(v)) of a 32-bit v >= 0 (46341 squared exceeds 2^31).
ISqrt(v) == SqrtBetween(0, IF v < 46340 THEN v + 1 ELSE 46341, v)

\* Taylor series of sin and cos on [0, pi/2]: term is the current term, k the
\* index of the next factor pair, sign the sign of the next term.
RECURSIVE Series(_, _, _, _, _)
Series(x, term, k, sign, acc) ==
    IF term = 0 THEN acc
    ELSE LET next == ((((term * x) \div FP) * x) \div (FP * k * (k + 1)))
         IN Series(x, next, k + 2, -sign, acc + sign * next)

Clamp(v, lo, hi) == IF v < lo THEN lo ELSE IF v > hi THEN hi ELSE v

SinQ == [x \in 0 .. HalfPi |-> Clamp(Series(x, x, 2, -1, x), 0, FP)]

CosQ == [x \in 0 .. HalfPi |-> Clamp(Series(x, FP, 1, -1, FP), 0, FP)]

\* sin and cos of a finite angle, by quadrant.
SinFP(a) ==
    LET r == a % TwoPi
    IN IF r <= HalfPi THEN SinQ[r]
       ELSE IF r <= PI THEN SinQ[Clamp(PI - r, 0, HalfPi)]
       ELSE IF r <= PI + HalfPi THEN -SinQ[Clamp(r - PI, 0, HalfPi)]
       ELSE -SinQ[Clamp(TwoPi - r, 0, HalfPi)]

CosFP(a) ==
    LET r == a % TwoPi
    IN IF r <= HalfPi THEN CosQ[r]
       ELSE IF r <= PI THEN -CosQ[Clamp(PI - r, 0, HalfPi)]
       ELSE IF r <= PI + HalfPi THEN -CosQ[Clamp(r - PI, 0, HalfPi)]
       ELSE CosQ[Clamp(TwoPi - r, 0, HalfPi)]

\* Largest angle a in lo .. hi - 1 with tan(a) <= t, given tan(lo) <= t.
RECURSIVE AtanBetween(_, _, _)
AtanBetween(lo, hi, t) ==
    IF hi - lo <= 1 THEN lo
    ELSE LET mid == (lo + hi) \div 2
         IN IF SinQ[mid] * FP <= t * CosQ[mid] THEN AtanBetween(mid, hi, t)
            ELSE AtanBetween(lo, mid, t)

\* arctan of a finite t >= 0, in [0, pi/2].
AtanFP(t) == AtanBetween(0, HalfPi + 1, t)

\* np.radians and np.degrees of a finite number.
Radians(d) == Quot(d * PI, Num(180))

DegreesFullTurn(r) == Quot(r * Num(360), PI)

Degrees(r) == Quot(r * Num(180), PI)

\* x / h for a finite x: numpy divides by zero without raising.
FloatDiv(x, h) ==
    IF h # 0 THEN Fin(DivFP(x, h))
    ELSE IF x > 0 THEN PosInf
    ELSE IF x < 0 THEN NegInf
    ELSE NaN

\* x ** 2
Square(x) ==
    IF IsNaN(x) THEN NaN
    ELSE IF IsInf(x) THEN PosInf
    ELSE Fin(MulFP(x.v, x.v))

\* x + y
FloatAdd(x, y) ==
    IF IsNaN(x) \/ IsNaN(y) THEN NaN
    ELSE IF IsInf(x) /\ IsInf(y) THEN (IF x.v = y.v THEN x ELSE NaN)
    ELSE IF IsInf(x) THEN x
    ELSE IF IsInf(y) THEN y
    ELSE Fin(x.v + y.v)

\* x - y of two numbers that are finite or nan
FloatSub(x, y) ==
    IF IsNaN(x) \/ IsNaN(y) THEN NaN ELSE Fin(x.v - y.v)

\* x * y of two numbers that are finite or nan
FloatMul(x, y) ==
    IF IsNaN(x) \/ IsNaN(y) THEN NaN ELSE Fin(MulFP(x.v, y.v))

\* -x
FloatNeg(x) ==
    IF IsNaN(x) THEN NaN
    ELSE IF IsInf(x) THEN [t |-> "inf", v |-> -x.v]
    ELSE Fin(-x.v)

\* np.sqrt
FloatSqrt(x) ==
    IF IsNaN(x) THEN NaN
    ELSE IF IsInf(x) THEN (IF x.v > 0 THEN PosInf ELSE NaN)
    ELSE IF x.v < 0 THEN NaN
    ELSE Fin(ISqrt(x.v * FP))

\* np.arctan
FloatArctan(x) ==
    IF IsNaN(x) THEN NaN
    ELSE IF IsInf(x) THEN Fin(x.v * HalfPi)
    ELSE Fin(Sign(x.v) * AtanFP(Abs(x.v)))

\* np.arctan2(y, x)
FloatArctan2(y, x) ==
    IF IsNaN(y) \/ IsNaN(x) THEN NaN
    ELSE IF IsInf(y) /\ IsInf(x)
         THEN Fin(y.v * (IF x.v > 0 THEN HalfPi \div 2
                         ELSE PI - HalfPi \div 2))
    ELSE IF IsInf(y) THEN Fin(y.v * HalfPi)
    ELSE IF IsInf(x)
         THEN Fin(IF x.v > 0 THEN 0 ELSE IF y.v < 0 THEN -PI ELSE PI)
    ELSE IF x.v = 0 THEN Fin(Sign(y.v) * HalfPi)
    ELSE LET a == AtanFP(DivFP(Abs(y.v), Abs(x.v)))
         IN IF x.v > 0 THEN Fin(Sign(y.v) * a)
            ELSE IF y.v < 0 THEN Fin(a - PI)
            ELSE Fin(PI - a)

\* np.sin and np.cos of a number that is finite or nan
FloatSin(x) == IF IsNaN(x) THEN NaN ELSE Fin(SinFP(x.v))

FloatCos(x) == IF IsNaN(x) THEN NaN ELSE Fin(CosFP(x.v))

\* np.degrees of a number that is finite or nan
FloatDegrees(x) == IF IsNaN(x) THEN NaN ELSE Fin(Degrees(x.v))

\* np.clip(x, 0, 1) without the clip, and with it; nan stays nan.
NoClip(x) == x

Clip01(x) == IF IsNaN(x) THEN NaN ELSE Fin(Clamp(x.v, 0, Num(1)))

(***************************************************************************)
(* raster/ops.py: _compute_slope and _compute_hillshade                    *)
(***************************************************************************)

\* An elevation grid is a sequence of rows of finite elevations.
MaxRows == 2

RowCounts == 0 .. MaxRows

ColCounts == {0, 1, 2, 3}

ElevValues == {0, Num(1)}

Grids == UNION {[1 .. r -> [1 .. c -> ElevValues]] : r \in RowCounts, c \in ColCounts}

\* Cell spacings passed as dx and dy: negative, zero and positive.
SpacingValues == {Num(-1), 0, Num(1), Num(2)}

\* Sun azimuth in [0, 360] and altitude in [0, 90], in degrees.
AzimuthValues == {0, Num(135), Num(315), Num(360)}

AltitudeValues == {0, Num(45), Num(90)}

Rows(dem) == Len(dem)

Cols(dem) == IF Len(dem) = 0 THEN 0 ELSE Len(dem[1])

\* One axis of np.gradient with a scalar spacing h (edge_order 1): f is the
\* sequence of samples along the axis; central differences inside, one-sided
\* differences at the two ends.
GradientAtUnitEdge(f, i, h) ==
    IF i = 1 THEN FloatDiv(f[2] - f[1], Num(1))
    ELSE IF i = Len(f) THEN FloatDiv(f[Len(f)] - f[Len(f) - 1], Num(1))
    ELSE FloatDiv(f[i + 1] - f[i - 1], MulFP(Num(2), h))

GradientAt(f, i, h) ==
    IF i = 1 THEN FloatDiv(f[2] - f[1], h)
    ELSE IF i = Len(f) THEN FloatDiv(f[Len(f)] - f[Len(f) - 1], h)
    ELSE FloatDiv(f[i + 1] - f[i - 1], MulFP(Num(2), h))

Column(dem, j) == [i \in 1 .. Rows(dem) |-> dem[i][j]]

\* np.gradient(dem, dy, dx): raises ValueError when an axis has fewer than
\* two samples, else returns the derivative along the rows (spacing dy) and
\* along the columns (spacing dx).
gradient(dem, dy, dx) ==
    IF Rows(dem) < 2 \/ Cols(dem) < 2
    THEN [kind |-> "raise", exc |-> "ValueError",
          msg  |-> "Shape of array too small to calculate a numerical gradient"]
    ELSE Return([grad_y |-> [i \in 1 .. Rows(dem) |-> [j \in 1 .. Cols(dem) |->
                                GradientAt(Column(dem, j), i, dy)]],
                 grad_x |-> [i \in 1 .. Rows(dem) |-> [j \in 1 .. Cols(dem) |->
                                GradientAt(dem[i], j, dx)]]])

\* np.arctan(np.sqrt(grad_x**2 + grad_y**2))
SlopeRad(grad_x, grad_y) ==
    FloatArctan(FloatSqrt(FloatAdd(Square(grad_x), Square(grad_y))))

compute_slope(dem, dx, dy) ==
    LET g == gradient(dem, dy, dx)
    IN IF g.kind = "raise" THEN g
       ELSE Return([i \in 1 .. Rows(dem) |-> [j \in 1 .. Cols(dem) |->
                FloatDegrees(SlopeRad(g.value.grad_x[i][j],
                                      g.value.grad_y[i][j]))]])

IlluminationSwapped(alt_rad, az_rad, slope_rad, aspect_rad) ==
    FloatAdd(FloatMul(FloatSin(alt_rad), FloatSin(slope_rad)),
             FloatMul(FloatMul(FloatCos(alt_rad), FloatSin(slope_rad)),
                      FloatCos(FloatSub(az_rad, aspect_rad))))

\* sin(alt) cos(slope) + cos(alt) sin(slope) cos(az - aspect)
Illumination(alt_rad, az_rad, slope_rad, aspect_rad) ==
    FloatAdd(FloatMul(FloatSin(alt_rad), FloatCos(slope_rad)),
             FloatMul(FloatMul(FloatCos(alt_rad), FloatSin(slope_rad)),
                      FloatCos(FloatSub(az_rad, aspect_rad))))

\* np.clip(hs, 0, 1) * 255.0
Scale255(hs) == FloatMul(Clip01(hs), Fin(Num(255)))

compute_hillshade(dem, dx, dy, azimuth, altitude) ==
    LET az_rad  == Fin(Radians(Num(360) - azimuth + Num(90)))
        alt_rad == Fin(Radians(altitude))
        g       == gradient(dem, dy, dx)
    IN IF g.kind = "raise" THEN g
       ELSE Return([i \in 1 .. Rows(dem) |-> [j \in 1 .. Cols(dem) |->
                LET grad_x == g.value.grad_x[i][j]
                    grad_y == g.value.grad_y[i][j]
                IN Scale255(Illumination(alt_rad, az_rad,
                       SlopeRad(grad_x, grad_y),
                       FloatArctan2(FloatNeg(grad_y), grad_x)))]])

TerrainCalls ==
    [fn : {"compute_slope"}, dem : Grids,
     dx : SpacingValues, dy : SpacingValues]
    \cup [fn : {"compute_hillshade"}, dem : Grids,
          dx : SpacingValues, dy : SpacingValues,
          azimuth : AzimuthValues, altitude : AltitudeValues]

InitTerrain == call \in TerrainCalls /\ ret = Pending

ComputeSlope ==
    /\ ret = Pending
    /\ call.fn = "compute_slope"
    /\ ret' = compute_slope(call.dem, call.dx, call.dy)
    /\ UNCHANGED call

ComputeHillshade ==
    /\ ret = Pending
    /\ call.fn = "compute_hillshade"
    /\ ret' = compute_hillshade(call.dem, call.dx, call.dy,
                                call.azimuth, call.altitude)
    /\ UNCHANGED call

NextTerrain == ComputeSlope \/ ComputeHillshade

SpecTerrain == InitTerrain /\ [][NextTerrain]_vars

(***************************************************************************)
(* Properties of compute_slope and compute_hillshade, checked under        *)
(* SpecTerrain.                                                            *)
(***************************************************************************)

\* A terrain call that has ended.
TerrainDone == call.fn \in {"compute_slope", "compute_hillshade"} /\ ret # Pending

\* The grid has at least 2 rows and 2 columns and both spacings are positive.
ValidTerrainInput ==
    /\ Len(call.dem) >= 2
    /\ \A i \in 1 .. Len(call.dem) : Len(call.dem[i]) >= 2
    /\ call.dx > 0 /\ call.dy > 0

ConstantGrid ==
    \A i \in 1 .. Len(call.dem) : \A j \in 1 .. Len(call.dem[i]) :
        call.dem[i][j] = call.dem[1][1]

\* C8: compute_slope and compute_hillshade fail with the invalid-input error
\* (ValueError), returning no grid, whenever dx <= 0 or dy <= 0 or the grid
\* has fewer than 2 rows or fewer than 2 columns.
C8_InvalidInputRaises ==
    (TerrainDone /\ ~ValidTerrainInput) =>
        ret.kind = "raise" /\ ret.exc = "ValueError"

\* C9: on a grid of constant elevation (at least 2x2, dx > 0, dy > 0)
\* compute_slope returns 0 in every cell and compute_hillshade returns
\* sin(altitude) * 255 in every cell, whatever the azimuth.
C9_FlatGrid ==
    (TerrainDone /\ ValidTerrainInput /\ ConstantGrid) =>
        /\ ret.kind = "return"
        /\ \A i \in 1 .. Len(call.dem) : \A j \in 1 .. Len(call.dem[i]) :
              IF call.fn = "compute_slope"
              THEN ret.value[i][j] = Fin(0)
              ELSE ret.value[i][j] =
                     Fin(MulFP(SinFP(Radians(call.altitude)), Num(255)))

\* The hillshade of a flat grid of elevation 1 under a sun at 45 degrees has
\* been computed: sin(45 deg) * 255, between 180 and 181.
C9_Witness ==
    /\ TerrainDone /\ ValidTerrainInput /\ ConstantGrid
    /\ call.fn = "compute_hillshade"
    /\ call.dem[1][1] = Num(1) /\ call.altitude = Num(45)
    /\ call.azimuth = Num(135)
    /\ ret.kind = "return"
    /\ ret.value[2][2].v > Num(180) /\ ret.value[2][2].v < Num(181)

\* C10: for every finite grid (at least 2x2, dx > 0, dy > 0), azimuth in
\* [0, 360] and altitude in [0, 90], every cell of the compute_hillshade
\* output is a number in [0, 255].
C10_HillshadeWithin0To255 ==
    (TerrainDone /\ ValidTerrainInput /\ call.fn = "compute_hillshade") =>
        /\ ret.kind = "return"
        /\ \A i \in 1 .. Len(call.dem) : \A j \in 1 .. Len(call.dem[i]) :
              /\ ret.value[i][j].t = "fin"
              /\ 0 <= ret.value[i][j].v
              /\ ret.value[i][j].v <= 255 * FP

\* The hillshade of a grid that is not flat has been computed with the sun
\* on the horizon: a cell facing away from the sun is clipped to 0 and a cell
\* facing it is lit.
C10_Witness ==
    /\ TerrainDone /\ ValidTerrainInput /\ call.fn = "compute_hillshade"
    /\ ~ConstantGrid /\ call.altitude = 0
    /\ ret.kind = "return"
    /\ \E i \in 1 .. Len(call.dem) : \E j \in 1 .. Len(call.dem[i]) :
          ret.value[i][j] = Fin(0)
    /\ \E i \in 1 .. Len(call.dem) : \E j \in 1 .. Len(call.dem[i]) :
          ret.value[i][j].v > 0

\* C11: for every valid input grid (at least 2x2, dx > 0, dy > 0) the
\* compute_slope output has the shape of the input grid and every cell is a
\* slope in degrees within [0, 90].
C11_SlopeShapeAndRange ==
    (TerrainDone /\ ValidTerrainInput /\ call.fn = "compute_slope") =>
        /\ ret.kind = "return"
        /\ Len(ret.value) = Len(call.dem)
        /\ \A i \in 1 .. Len(call.dem) :
              /\ Len(ret.value[i]) = Len(call.dem[i])
              /\ \A j \in 1 .. Len(call.dem[i]) :
                    /\ ret.value[i][j].t = "fin"
                    /\ 0 <= ret.value[i][j].v
                    /\ ret.value[i][j].v <= 90 * FP

\* The slope of a 2x3 grid with a unit step over a unit spacing has been
\* computed: a cell of about 45 degrees next to a flat one.
C11_Witness ==
    /\ TerrainDone /\ ValidTerrainInput /\ call.fn = "compute_slope"
    /\ Len(call.dem) = 2 /\ Len(call.dem[1]) = 3
    /\ ret.kind = "return"
    /\ \E i \in 1 .. 2 : \E j \in 1 .. 3 :
          ret.value[i][j].v > 44 * FP /\ ret.value[i][j].v < 46 * FP
    /\ \E i \in 1 .. 2 : \E j \in 1 .. 3 : ret.value[i][j].v = 0

\* Factors by which a call's spacings and elevations are rescaled.
ScaleFactors == {2, 4}

\* The grid with every elevation multiplied by k, and divided by k.
ScaledGrid(dem, k) ==
    [i \in 1 .. Len(dem) |-> [j \in 1 .. Len(dem[i]) |-> k * dem[i][j]]]

InverseScaledGrid(dem, k) ==
    [i \in 1 .. Len(dem) |-> [j \in 1 .. Len(dem[i]) |-> dem[i][j] \div k]]

\* C13 as stated: the compute_slope output is unchanged when dx and dy are
\* multiplied by k > 0 and the elevation differences are divided by k.
C13_InverseScalingInvariant ==
    (TerrainDone /\ ValidTerrainInput /\ call.fn = "compute_slope") =>
        \A k \in ScaleFactors :
            compute_slope(InverseScaledGrid(call.dem, k),
                          k * call.dx, k * call.dy) = ret

\* C13 as amended: the compute_slope output is unchanged when dx, dy and
\* the elevations are all multiplied by the same k > 0.
C13_CommonScalingInvariant ==
    (TerrainDone /\ ValidTerrainInput /\ call.fn = "compute_slope") =>
        \A k \in ScaleFactors :
            compute_slope(ScaledGrid(call.dem, k),
                          k * call.dx, k * call.dy) = ret

\* The slope of a grid that is not flat has been computed over spacings
\* dx = 2, dy = 1, and the grid with doubled elevations over doubled spacings
\* has the same, non-zero, slope.
C13_Witness ==
    /\ TerrainDone /\ ValidTerrainInput /\ call.fn = "compute_slope"
    /\ ~ConstantGrid /\ call.dx = 2 * FP /\ call.dy = FP
    /\ ret.kind = "return"
    /\ \E i \in 1 .. Len(call.dem) : \E j \in 1 .. Len(call.dem[i]) :
          ret.value[i][j].v > 0
    /\ compute_slope(ScaledGrid(call.dem, 2), 2 * call.dx, 2 * call.dy) = ret

(***************************************************************************)
(* raster/ops.py: a caller making several terrain calls on one grid.       *)
(* Here call is the set of argument objects the caller holds (the grid is  *)
(* an array the callee could write into) and ret the record of the calls   *)
(* made so far.                                                            *)
(***************************************************************************)

\* Number of calls in one session.
MaxCalls == 3

SessionGrids == {g \in Grids : Rows(g) <= 2 /\ Cols(g) <= 2}

SessionArgs ==
    [dem : SessionGrids, dx : {0, Num(1), Num(2)}, dy : {Num(1)},
     azimuth : {Num(315)}, altitude : {Num(45)}]

DemRescaled(dem) ==
    [i \in 1 .. Len(dem) |-> [j \in 1 .. Len(dem[i]) |-> 2 * dem[i][j]]]

\* The caller's array after a call: np.gradient, **, np.sqrt, np.arctan,
\* np.clip and * all allocate their results, nothing is assigned into dem.
DemAfterCall(dem) == dem

SessionEntry(fn, out) ==
    [fn |-> fn, before |-> call.dem, out |-> out,
     after |-> DemAfterCall(call.dem)]

InitSession == call \in SessionArgs /\ ret = <<>>

SessionSlope ==
    /\ Len(ret) < MaxCalls
    /\ ret' = Append(ret, SessionEntry("compute_slope",
                              compute_slope(call.dem, call.dx, call.dy)))
    /\ call' = [call EXCEPT !.dem = DemAfterCall(call.dem)]

SessionHillshade ==
    /\ Len(ret) < MaxCalls
    /\ ret' = Append(ret, SessionEntry("compute_hillshade",
                              compute_hillshade(call.dem, call.dx, call.dy,
                                                call.azimuth, call.altitude)))
    /\ call' = [call EXCEPT !.dem = DemAfterCall(call.dem)]

NextSession == SessionSlope \/ SessionHillshade

SpecSession == InitSession /\ [][NextSession]_vars

CRSPreset(epsg, name, description, region) ==
    [epsg |-> epsg, name |-> name, description |-> description,
     region |-> region]

SUDAN_CRS_PRESETS ==
    << CRSPreset(4326, "WGS 84",
                 "Global geographic CRS (latitude / longitude)", "Global"),
       CRSPreset(32634, "WGS 84 / UTM zone 34N",
                 "UTM zone covering western Sudan (~18-24 E)",
                 "Western Sudan"),
       CRSPreset(32635, "WGS 84 / UTM zone 35N",
                 "UTM zone covering central Sudan (~24-30 E)",
                 "Central Sudan"),
       CRSPreset(32636, "WGS 84 / UTM zone 36N",
                 "UTM zone covering eastern Sudan (~30-36 E)",
                 "Eastern Sudan"),
       CRSPreset(32637, "WGS 84 / UTM zone 37N",
                 "UTM zone covering far-eastern Sudan and Red Sea coast (~36-42 E)",
                 "Red Sea / Far-Eastern Sudan"),
       CRSPreset(20135, "Adindan / UTM zone 35N",
                 "Legacy Adindan datum, UTM zone 35N",
                 "Central Sudan (legacy surveys)"),
       CRSPreset(20136, "Adindan / UTM zone 36N",
                 "Legacy Adindan datum, UTM zone 36N",
                 "Eastern Sudan (legacy surveys)"),
       CRSPreset(20137, "Adindan / UTM zone 37N",
                 "Legacy Adindan datum, UTM zone 37N",
                 "Red Sea / Far-Eastern Sudan (legacy surveys)") >>

\* The objects of the registry are numbered in the order of the list; the
\* next number is a CRSPreset the caller made itself.
RegistryIds == 1 .. Len(SUDAN_CRS_PRESETS)

CallerObject == Len(SUDAN_CRS_PRESETS) + 1

ObjectsAtStart ==
    [id \in RegistryIds \cup {CallerObject} |->
        IF id \in RegistryIds THEN SUDAN_CRS_PRESETS[id]
        ELSE CRSPreset(99999, "mine", "made by the caller", "nowhere")]

ListAtStart == [i \in RegistryIds |-> i]

\* Number of changes a caller makes to the list it holds.
MaxEdits == 2

list_presets_alias(module_list) == [alias |-> TRUE, items |-> module_list]

\* list(SUDAN_CRS_PRESETS): a new list holding the same objects.
list_presets(module_list) == [alias |-> FALSE, items |-> module_list]

MatchesZone(p, epsg) == p.epsg % 100 = epsg % 100

\* p.epsg == epsg
Matches(p, epsg) == p.epsg = epsg

\* for p in SUDAN_CRS_PRESETS: if p.epsg == epsg: return p; return None.
\* The result is <<object>> or, for None, << >>.
RECURSIVE get_preset_from(_, _, _, _)
get_preset_from(objects, module_list, i, epsg) ==
    IF i > Len(module_list) THEN << >>
    ELSE IF Matches(objects[module_list[i]], epsg) THEN <<module_list[i]>>
    ELSE get_preset_from(objects, module_list, i + 1, epsg)

get_preset(objects, module_list, epsg) ==
    get_preset_from(objects, module_list, 1, epsg)

\* Assigning to a field of a CRSPreset: the dataclass is frozen, the
\* assignment raises FrozenInstanceError and the object stays as it was.
setattr_epsg(p, epsg) == p

PresetQueries == {SUDAN_CRS_PRESETS[i].epsg : i \in RegistryIds}
                 \cup {0, 32661, 99999}

\* The list the caller's variable refers to.
HeldList == IF call.alias THEN call.module_list ELSE call.caller_list

\* The memory after the caller changed the list it holds into items.
AfterEdit(items) ==
    IF call.alias
    THEN [call EXCEPT !.module_list = items, !.edits = @ + 1]
    ELSE [call EXCEPT !.caller_list = items, !.edits = @ + 1]

Reversed(items) == [i \in 1 .. Len(items) |-> items[Len(items) + 1 - i]]

Without(items, k) ==
    [i \in 1 .. Len(items) - 1 |-> IF i < k THEN items[i] ELSE items[i + 1]]

InitRegistry ==
    /\ call = [objects |-> ObjectsAtStart, module_list |-> ListAtStart,
               caller_list |-> << >>, has_list |-> FALSE, alias |-> FALSE,
               edits |-> 0]
    /\ ret = Pending

ListPresets ==
    LET r == list_presets(call.module_list)
    IN /\ call' = [call EXCEPT !.caller_list = r.items, !.alias = r.alias,
                               !.has_list = TRUE]
       /\ ret' = [kind |-> "return", fn |-> "list_presets", arg |-> 0,
                  value |-> r.items]

GetPreset ==
    \E epsg \in PresetQueries :
        /\ ret' = [kind |-> "return", fn |-> "get_preset", arg |-> epsg,
                   value |-> get_preset(call.objects, call.module_list, epsg)]
        /\ UNCHANGED call

RegistrySuggest ==
    \E lon \in {Deg(25), Deg(32), Deg(180)}, lat \in {Deg(-5), Deg(15)} :
        /\ ret' = [kind |-> "return", fn |-> "suggest_utm_zone", arg |-> lon,
                   value |-> suggest_utm_zone(lon, lat).value]
        /\ UNCHANGED call

CallerAppend ==
    /\ call.has_list /\ call.edits < MaxEdits
    /\ \E id \in {1, CallerObject} : call' = AfterEdit(Append(HeldList, id))
    /\ ret' = [kind |-> "return", fn |-> "list.append", arg |-> 0,
               value |-> << >>]

CallerRemove ==
    /\ call.has_list /\ call.edits < MaxEdits
    /\ \E k \in 1 .. Len(HeldList) : call' = AfterEdit(Without(HeldList, k))
    /\ ret' = [kind |-> "return", fn |-> "list.pop", arg |-> 0,
               value |-> << >>]

CallerReverse ==
    /\ call.has_list /\ call.edits < MaxEdits
    /\ call' = AfterEdit(Reversed(HeldList))
    /\ ret' = [kind |-> "return", fn |-> "list.reverse", arg |-> 0,
               value |-> << >>]

CallerSetField ==
    /\ call.has_list /\ call.edits < MaxEdits
    /\ \E k \in 1 .. Len(HeldList) :
          call' = [call EXCEPT
                     !.objects[HeldList[k]] = setattr_epsg(@, 0),
                     !.edits = @ + 1]
    /\ ret' = [kind |-> "raise", fn |-> "setattr", arg |-> 0,
               value |-> << >>]

NextRegistry ==
    \/ ListPresets \/ GetPreset \/ RegistrySuggest
    \/ CallerAppend \/ CallerRemove \/ CallerReverse \/ CallerSetField

SpecRegistry == InitRegistry /\ [][NextRegistry]_vars

\* What get_preset(epsg) returns at start-up.
PresetAtStart(epsg) ==
    IF \E i \in RegistryIds : SUDAN_CRS_PRESETS[i].epsg = epsg
    THEN <<CHOOSE i \in RegistryIds : SUDAN_CRS_PRESETS[i].epsg = epsg>>
    ELSE << >>

\* C14: whatever list_presets, get_preset and suggest_utm_zone calls are
\* made and however callers change the lists list_presets returned, the
\* registry holds the start-up presets in the start-up order: list_presets
\* returns them and get_preset returns what it returned at start-up.
C14_RegistryReadOnly ==
    /\ call.module_list = ListAtStart
    /\ \A id \in RegistryIds : call.objects[id] = SUDAN_CRS_PRESETS[id]
    /\ (ret.kind = "return" /\ ret.fn = "list_presets") =>
           ret.value = ListAtStart
    /\ (ret.kind = "return" /\ ret.fn = "get_preset") =>
           ret.value = PresetAtStart(ret.arg)

\* After the caller changed the list it got twice, list_presets has been
\* called again and returned the start-up list, which the caller now holds.
C14_Witness ==
    /\ call.edits = 2
    /\ ret.kind = "return" /\ ret.fn = "list_presets"
    /\ ret.value = ListAtStart /\ call.caller_list = ListAtStart

\* C15: get_preset(epsg) returns the preset whose epsg is the argument when
\* the registry has one and None otherwise; the EPSG codes of the registry
\* are pairwise distinct, so get_preset(p.epsg) is p for every preset p.
C15_GetPresetByEpsg ==
    /\ \A i, j \in 1 .. Len(call.module_list) :
          i # j => call.objects[call.module_list[i]].epsg
                     # call.objects[call.module_list[j]].epsg
    /\ (ret.kind = "return" /\ ret.fn = "get_preset") =>
          /\ \A i \in 1 .. Len(call.module_list) :
                call.objects[call.module_list[i]].epsg = ret.arg
                    => ret.value = <<call.module_list[i]>>
          /\ (\A i \in 1 .. Len(call.module_list) :
                call.objects[call.module_list[i]].epsg # ret.arg)
                    => ret.value = << >>

\* get_preset(20135) has returned the sixth preset, the Adindan one.
C15_Witness ==
    /\ ret.kind = "return" /\ ret.fn = "get_preset" /\ ret.arg = 20135
    /\ ret.value = <<6>>
    /\ call.objects[6].name = "Adindan / UTM zone 35N"

(***************************************************************************)
(* Concurrent calls of suggest_utm_zone, _compute_slope and                *)
(* _compute_hillshade.  Here call gives each thread its call and ret holds *)
(* each thread's position in its function, the local variables of the      *)
(* calls in progress and the outcome of each call; a thread runs its       *)
(* function one group of statements at a time, interleaved with the        *)
(* others.                                                                 *)
(***************************************************************************)

NumThreads == 2

Threads == 1 .. NumThreads

ConcurrentGrids ==
    { <<<<0, 0>>, <<0, 0>>>>, <<<<0, Num(1)>>, <<0, 0>>>>, <<<<0>>>> }

ConcurrentCalls ==
    [fn : {"suggest_utm_zone"}, lon : {Deg(32), Deg(180), Deg(200)},
     lat : {Deg(-5), Deg(15)}]
    \cup [fn : {"compute_slope"}, dem : ConcurrentGrids,
          dx : {Num(1)}, dy : {Num(2)}]
    \cup [fn : {"compute_hillshade"}, dem : ConcurrentGrids,
          dx : {Num(1)}, dy : {Num(2)},
          azimuth : {Num(315)}, altitude : {Num(45)}]

\* The local variables of a call before any is assigned.
EmptyFrame ==
    [zone_number |-> 0, hemisphere |-> "", suggestions |-> << >>,
     grad_x |-> << >>, grad_y |-> << >>]

FrameShared(t) == 1

\* Where the local variables of thread t's call live: in the call's own
\* frame.
FrameOf(t) == t

\* _compute_slope after np.gradient, from its local variables.
slope_of_gradient(f) ==
    Return([i \in 1 .. Len(f.grad_x) |-> [j \in 1 .. Len(f.grad_x[i]) |->
        FloatDegrees(SlopeRad(f.grad_x[i][j], f.grad_y[i][j]))]])

\* _compute_hillshade after np.gradient, from its local variables.
hillshade_of_gradient(f, azimuth, altitude) ==
    LET az_rad  == Fin(Radians(Num(360) - azimuth + Num(90)))
        alt_rad == Fin(Radians(altitude))
    IN Return([i \in 1 .. Len(f.grad_x) |-> [j \in 1 .. Len(f.grad_x[i]) |->
          Scale255(Illumination(alt_rad, az_rad,
              SlopeRad(f.grad_x[i][j], f.grad_y[i][j]),
              FloatArctan2(FloatNeg(f.grad_y[i][j]), f.grad_x[i][j])))]])

\* Thread t takes a step while another thread is inside its function.
Overlaps(t) ==
    ret.overlapped
    \/ \E u \in Threads \ {t} : ret.pc[u] \notin {"start", "done"}

Finish(t, outcome) ==
    ret' = [ret EXCEPT !.pc[t] = "done", !.out[t] = outcome,
                       !.overlapped = Overlaps(t)]

Continue(t, pc, frame) ==
    ret' = [ret EXCEPT !.pc[t] = pc, !.frame[FrameOf(t)] = frame,
                       !.overlapped = Overlaps(t)]

InitConcurrent ==
    /\ call \in [Threads -> ConcurrentCalls]
    /\ ret = [pc |-> [t \in Threads |-> "start"],
              frame |-> [t \in Threads |-> EmptyFrame],
              out |-> [t \in Threads |-> Pending],
              overlapped |-> FALSE]

\* suggest_utm_zone: the range checks, zone_number and hemisphere.
SuggestCheck(t) ==
    /\ ret.pc[t] = "start" /\ call[t].fn = "suggest_utm_zone"
    /\ IF ~LonInRange(call[t].lon)
       THEN Finish(t, RangeError("Longitude", call[t].lon, "[-180, 180]"))
       ELSE IF ~LatInRange(call[t].lat)
       THEN Finish(t, RangeError("Latitude", call[t].lat, "[-90, 90]"))
       ELSE Continue(t, "zone",
                [EmptyFrame EXCEPT !.zone_number = ZoneNumber(call[t].lon),
                                   !.hemisphere = Hemisphere(call[t].lat)])
    /\ UNCHANGED call

\* suggest_utm_zone: the list with the WGS 84 suggestion.
SuggestBuild(t) ==
    /\ ret.pc[t] = "zone"
    /\ LET f == ret.frame[FrameOf(t)]
       IN Continue(t, "list",
              [f EXCEPT !.suggestions =
                  <<Wgs84Suggestion(f.zone_number, f.hemisphere)>>])
    /\ UNCHANGED call

\* suggest_utm_zone: the Adindan suggestion and the return.
SuggestReturn(t) ==
    /\ ret.pc[t] = "list"
    /\ LET f == ret.frame[FrameOf(t)]
       IN Finish(t, Return(
              IF HasAdindan(f.zone_number, f.hemisphere)
              THEN Append(f.suggestions,
                          AdindanSuggestion(f.zone_number, f.hemisphere))
              ELSE f.suggestions))
    /\ UNCHANGED call

\* _compute_slope and _compute_hillshade: np.gradient.
TerrainGradient(t) ==
    /\ ret.pc[t] = "start"
    /\ call[t].fn \in {"compute_slope", "compute_hillshade"}
    /\ LET g == gradient(call[t].dem, call[t].dy, call[t].dx)
       IN IF g.kind = "raise" THEN Finish(t, g)
          ELSE Continue(t, "gradient",
                   [EmptyFrame EXCEPT !.grad_x = g.value.grad_x,
                                      !.grad_y = g.value.grad_y])
    /\ UNCHANGED call

SlopeFinish(t) ==
    /\ ret.pc[t] = "gradient" /\ call[t].fn = "compute_slope"
    /\ Finish(t, slope_of_gradient(ret.frame[FrameOf(t)]))
    /\ UNCHANGED call

HillshadeFinish(t) ==
    /\ ret.pc[t] = "gradient" /\ call[t].fn = "compute_hillshade"
    /\ Finish(t, hillshade_of_gradient(ret.frame[FrameOf(t)],
                                       call[t].azimuth, call[t].altitude))
    /\ UNCHANGED call

NextConcurrent ==
    \E t \in Threads :
        \/ SuggestCheck(t) \/ SuggestBuild(t) \/ SuggestReturn(t)
        \/ TerrainGradient(t) \/ SlopeFinish(t) \/ HillshadeFinish(t)

SpecConcurrent == InitConcurrent /\ [][NextConcurrent]_vars

\* What a call returns or raises when it is the only call running.
RunAlone(c) ==
    IF c.fn = "suggest_utm_zone" THEN suggest_utm_zone(c.lon, c.lat)
    ELSE IF c.fn = "compute_slope" THEN compute_slope(c.dem, c.dx, c.dy)
    ELSE compute_hillshade(c.dem, c.dx, c.dy, c.azimuth, c.altitude)

\* C16: under every interleaving of concurrent calls of suggest_utm_zone,
\* compute_slope and compute_hillshade, with no locking, each call ends with
\* exactly the result it has when run alone.
C16_ConcurrentCallsAsAlone ==
    \A t \in Threads :
        ret.pc[t] = "done" => ret.out[t] = RunAlone(call[t])

\* Two different calls, a suggest_utm_zone and a compute_hillshade, have
\* both ended after running interleaved, each with its own result.
C16_Witness ==
    /\ ret.overlapped
    /\ ret.pc[1] = "done" /\ ret.pc[2] = "done"
    /\ call[1].fn = "suggest_utm_zone" /\ call[2].fn = "compute_hillshade"
    /\ ret.out[1].kind = "return" /\ Len(ret.out[1].value) = 2
    /\ ret.out[2].kind = "return" /\ ret.out[2].value[1][1].v > 0

(***************************************************************************)
(* vector/ops.py: the seven vector operations with _read and _write.       *)
(*                                                                         *)
(* A dataset (GeoDataFrame) is its CRS, the UTM CRS geopandas estimates    *)
(* for it, its columns and one geometry per row.  A geometry is kept by    *)
(* what the operations depend on: whether it is missing (None), valid or   *)
(* invalid, the CRS its coordinates are in, and the operations applied to  *)
(* it.  A call runs in a world of warnings emitted, library computations   *)
(* made, directories created and files written.                            *)
(***************************************************************************)

\* Rows of a dataset.
MaxGeoms == 2

Validities == {"valid", "invalid", "missing"}

CrsValues == {"None", "EPSG:4326", "EPSG:32635"}

Geometry(validity, crs) == [validity |-> validity, crs |-> crs, ops |-> << >>]

Dataset(crs, validities) ==
    [crs |-> crs, utm |-> "EPSG:32636", columns |-> {"name", "geometry"},
     geoms |-> [i \in 1 .. Len(validities) |-> Geometry(validities[i], crs)]]

Datasets ==
    {Dataset(crs, v) : crs \in CrsValues,
                       v \in UNION {[1 .. n -> Validities] : n \in 0 .. MaxGeoms}}

\* src is a GeoDataFrame or a path; a path may not exist or not be readable.
Sources ==
    [kind : {"frame"}, exists : {TRUE}, readable : {TRUE}, data : Datasets]
    \cup [kind : {"path"}, exists : {TRUE}, readable : BOOLEAN, data : Datasets]
    \cup [kind : {"path"}, exists : {FALSE}, readable : {FALSE}, data : Datasets]

\* out is None, written << >>, or a path, kept as its parent and suffix.
OutPaths ==
    {<< >>} \cup {<<[parent |-> "results", suffix |-> x]>> :
                     x \in {".gpkg", ".SHP", ".txt"}}

\* path.suffix.lower()
Lower(suffix) ==
    IF suffix = ".SHP" THEN ".shp"
    ELSE IF suffix = ".GPKG" THEN ".gpkg"
    ELSE IF suffix = ".TIFF" THEN ".tiff"
    ELSE suffix

DriverOfAnySuffix ==
    [x \in {".gpkg", ".geojson", ".json", ".shp", ".txt"} |->
        IF x = ".gpkg" THEN "GPKG"
        ELSE IF x = ".shp" THEN "ESRI Shapefile" ELSE "GeoJSON"]

\* _DRIVERS
DriverOf ==
    [x \in {".gpkg", ".geojson", ".json", ".shp"} |->
        IF x = ".gpkg" THEN "GPKG"
        ELSE IF x = ".shp" THEN "ESRI Shapefile" ELSE "GeoJSON"]

\* dict keys of _DRIVERS, in the order of the source.
DriverSuffixes == <<".gpkg", ".geojson", ".json", ".shp">>

RECURSIVE Join(_, _)
\* sep.join(words)
Join(words, sep) ==
    IF Len(words) = 0 THEN ""
    ELSE IF Len(words) = 1 THEN words[1]
    ELSE words[1] \o sep \o Join(Tail(words), sep)

\* caller is <<the caller's GeoDataFrame as it is now>>, or << >> when src
\* is a path.
EmptyWorld ==
    [warnings |-> << >>, events |-> << >>, dirs |-> {}, files |-> {},
     caller |-> << >>]

\* The world a call starts in.
StartWorld(src) ==
    [EmptyWorld EXCEPT
        !.caller = IF src.kind = "frame" THEN <<src.data>> ELSE << >>]

\* How a function ends: value is <<result>> on return and << >> on raise.
Returned(v, w) ==
    [kind |-> "return", exc |-> "", hint |-> "", value |-> <<v>>, world |-> w]

Raised(exc, hint, w) ==
    [kind |-> "raise", exc |-> exc, hint |-> hint, value |-> << >>,
     world |-> w]

WarnTwice(w, message) ==
    [w EXCEPT !.warnings = Append(Append(@, message), message)]

\* warnings.warn(message, UserWarning, stacklevel=2)
Warn(w, message) == [w EXCEPT !.warnings = Append(@, message)]

\* A computation made by the geometry library, with the CRS of its result.
Event(w, op, crs) ==
    [w EXCEPT !.events = Append(@, [op |-> op, crs |-> crs])]

\* A GeoDataFrame object the call holds: its content, and whether the
\* object was created inside the call (own) or is the caller's.
Own(data) == [data |-> data, own |-> TRUE]

\* src itself, when the caller passed a GeoDataFrame.
Received(src) == [data |-> src.data, own |-> FALSE]

copy_alias(frame) == frame

\* DataFrame.copy(): a new object with the same content.
copy(frame) == [frame EXCEPT !.own = TRUE]

\* frame[column] = ...: an assignment in place; it shows in the caller's
\* dataset when frame is the caller's object.
SetItem(frame, data, w) ==
    IF frame.own THEN w ELSE [w EXCEPT !.caller = <<data>>]

\* crs.is_geographic
is_geographic(crs) == crs = "EPSG:4326"

\* gdf.to_crs(crs): a new dataset with every geometry's coordinates in crs.
to_crs(gdf, crs) ==
    [gdf EXCEPT !.crs = crs,
                !.geoms = [i \in 1 .. Len(gdf.geoms) |->
                    IF gdf.geoms[i].validity = "missing" THEN gdf.geoms[i]
                    ELSE [gdf.geoms[i] EXCEPT !.crs = crs]]]

\* gdf.estimate_utm_crs()
estimate_utm_crs(gdf) == gdf.utm

\* GeoSeries.is_valid: False for a missing geometry.
is_valid(g) == g.validity = "valid"

\* shapely.validation.make_valid(g)
make_valid(g) ==
    [g EXCEPT !.validity = "valid", !.ops = Append(@, "make_valid")]

\* GeoSeries.buffer(distance_m): a missing geometry stays missing.
Buffered(g) ==
    IF g.validity = "missing" THEN g
    ELSE [g EXCEPT !.ops = Append(@, "buffer")]

\* GeoSeries.simplify(tolerance_m): a missing geometry stays missing.
Simplified(g) ==
    IF g.validity = "missing" THEN g
    ELSE [g EXCEPT !.ops = Append(@, "simplify")]

\* _read(path)
read(src, w) ==
    IF ~src.exists THEN Raised("FileFormatError", "", w)
    ELSE IF ~src.readable
    THEN Raised("FileFormatError",
                "Supported formats: GeoPackage (.gpkg), GeoJSON, Shapefile (.shp).",
                w)
    ELSE Returned(src.data, w)

\* gdf = _read(src) if not isinstance(src, gpd.GeoDataFrame) else src
Obtained(src, w) ==
    IF src.kind = "path"
    THEN LET rd == read(src, w)
         IN IF rd.kind = "raise" THEN rd
            ELSE Returned(Own(rd.value[1]), rd.world)
    ELSE Returned(Received(src), w)

\* _write(gdf, path); gdf.to_file raises OSError when the disk refuses.
write(gdf, path, writable, w) ==
    IF Lower(path.suffix) \notin DOMAIN DriverOf
    THEN Raised("FileFormatError",
                "Use one of: " \o Join(DriverSuffixes, ", "),
                w)
    ELSE LET made == [w EXCEPT !.dirs = @ \cup {path.parent}]
         IN IF ~writable THEN Raised("OSError", "", made)
            ELSE Returned(path,
                   [made EXCEPT !.files = @ \cup
                       {[path |-> path, driver |-> DriverOf[Lower(path.suffix)],
                         rows |-> Len(gdf.geoms), crs |-> gdf.crs]}])

\* if out is not None: _write(result, out); return result
WriteAndReturn(result, out, writable, w) ==
    IF out = << >> THEN Returned(result, w)
    ELSE LET wr == write(result, out[1], writable, w)
         IN IF wr.kind = "raise" THEN wr ELSE Returned(result, wr.world)

NeverNoCrs(crs) == FALSE

\* gdf.crs is None
HasNoCrs(crs) == crs = "None"

\* The message of the warning calculate_area emits at a geographic CRS.
AreaGeographicWarning ==
    "Input CRS is geographic (lat/lon). Area will be computed by temporarily projecting to the estimated UTM zone."

\* The message of the warning buffer emits at a geographic CRS.
BufferGeographicWarning ==
    "Input CRS is geographic. Temporarily projecting to UTM for accurate meter-based buffering."

\* The steps of calculate_area on the object frame it read or copied.
AreaOf(frame, field, out, writable, w) ==
    LET gdf == frame.data
        with_area == [gdf EXCEPT !.columns = @ \cup {field}]
    IN IF HasNoCrs(gdf.crs)
       THEN Raised("CRSError",
                   "Set a CRS first, e.g. 'sudapy vector reproject --in file --out file --to 32635'.",
                   w)
       ELSE IF gdf.crs = "None" THEN Raised("AttributeError", "", w)
       ELSE IF is_geographic(gdf.crs)
       THEN LET w1 == Warn(w, AreaGeographicWarning)
                projected == to_crs(gdf, estimate_utm_crs(gdf))
                w2 == Event(Event(w1, "to_crs", projected.crs),
                            "area", projected.crs)
            IN WriteAndReturn(with_area, out, writable,
                              SetItem(frame, with_area, w2))
       ELSE WriteAndReturn(with_area, out, writable,
                           SetItem(frame, with_area,
                                   Event(w, "area", gdf.crs)))

calculate_area(src, field, out, writable) ==
    IF src.kind = "path"
    THEN LET rd == read(src, StartWorld(src))
         IN IF rd.kind = "raise" THEN rd
            ELSE AreaOf(Own(rd.value[1]), field, out, writable, rd.world)
    ELSE AreaOf(copy(Received(src)), field, out, writable, StartWorld(src))

LeaveProjected(projected, original_crs) == projected

\* projected.to_crs(original_crs)
BackToOriginal(projected, original_crs) == to_crs(projected, original_crs)

WithBuffer(gdf) ==
    [gdf EXCEPT !.geoms = [i \in 1 .. Len(gdf.geoms) |-> Buffered(gdf.geoms[i])]]

\* The steps of buffer on the object frame it read or received.  Both
\* assignments in place are made on objects created in the call: the
\* result of gdf.to_crs and gdf.copy().
BufferOf(frame, out, writable, w) ==
    LET gdf == frame.data
        original_crs == gdf.crs
    IN IF HasNoCrs(original_crs)
       THEN Raised("CRSError",
                   "Set a CRS so the buffer distance can be applied in meters.",
                   w)
       ELSE IF original_crs = "None" THEN Raised("AttributeError", "", w)
       ELSE IF is_geographic(original_crs)
       THEN LET w1 == Warn(w, BufferGeographicWarning)
                reprojected == Own(to_crs(gdf, estimate_utm_crs(gdf)))
                projected == WithBuffer(reprojected.data)
                result == BackToOriginal(projected, original_crs)
                w2 == Event(Event(Event(w1, "to_crs", projected.crs),
                                  "buffer", projected.crs),
                            "to_crs", result.crs)
            IN WriteAndReturn(result, out, writable,
                              SetItem(reprojected, projected, w2))
       ELSE LET copied == copy(frame)
                result == WithBuffer(copied.data)
            IN WriteAndReturn(result, out, writable,
                              SetItem(copied, result,
                                      Event(w, "buffer", gdf.crs)))

buffer(src, out, writable) ==
    LET ob == Obtained(src, StartWorld(src))
    IN IF ob.kind = "raise" THEN ob
       ELSE BufferOf(ob.value[1], out, writable, ob.world)

NeedsFixSeveral(invalid_count) == invalid_count > 1

\* if invalid_count > 0
NeedsFix(invalid_count) == invalid_count > 0

\* The steps of fix_geometry on the object frame it read or copied.
FixOf(frame, out, writable, w) ==
    LET gdf == frame.data
        invalid_count ==
            Cardinality({i \in 1 .. Len(gdf.geoms) : ~is_valid(gdf.geoms[i])})
        fixed == [i \in 1 .. Len(gdf.geoms) |->
                    IF gdf.geoms[i].validity # "missing"
                       /\ ~is_valid(gdf.geoms[i])
                    THEN make_valid(gdf.geoms[i]) ELSE gdf.geoms[i]]
        result == [gdf EXCEPT !.geoms = fixed]
    IN IF NeedsFix(invalid_count)
       THEN WriteAndReturn(result, out, writable,
                           SetItem(frame, result,
                                   Event(w, "make_valid", gdf.crs)))
       ELSE WriteAndReturn(gdf, out, writable, w)

fix_geometry(src, out, writable) ==
    IF src.kind = "path"
    THEN LET rd == read(src, StartWorld(src))
         IN IF rd.kind = "raise" THEN rd
            ELSE FixOf(Own(rd.value[1]), out, writable, rd.world)
    ELSE FixOf(copy(Received(src)), out, writable, StartWorld(src))

\* The CRS a handle of validate_epsg stands for, as datasets name it.
CrsOfHandle(handle) == "EPSG:" \o ToString(handle.to_epsg)

\* The EPSG codes reproject is asked for; 99999 is in no database.
TargetEpsgValues == {4326, 32636, 99999}

\* GeoDataFrame.to_crs raises ValueError ("Cannot transform naive
\* geometries") for a dataset that has no CRS.
NaiveToCrsRaises(gdf) == gdf.crs = "None"

\* reproject; exc is what the projection library raises for a code it
\* cannot resolve.
reproject(src, to_epsg, exc, out, writable) ==
    LET ob == Obtained(src, StartWorld(src))
    IN IF ob.kind = "raise" THEN ob
       ELSE LET gdf == ob.value[1].data
                target_crs == validate_epsg(to_epsg, exc)
            IN IF target_crs.kind = "raise"
               THEN Raised(target_crs.exc,
                           IF target_crs.exc = "CRSError"
                           THEN target_crs.hint ELSE "",
                           ob.world)
               ELSE IF NaiveToCrsRaises(gdf)
               THEN Raised("ValueError", "", ob.world)
               ELSE LET result == to_crs(gdf, CrsOfHandle(target_crs.value))
                    IN WriteAndReturn(result, out, writable,
                                      Event(ob.world, "to_crs", result.crs))

\* The steps of simplify on the object frame it read or received; a
\* dataset with no CRS takes the second branch.
SimplifyOf(frame, out, writable, w) ==
    LET gdf == frame.data
        original_crs == gdf.crs
        WithSimplify(d) ==
            [d EXCEPT !.geoms = [i \in 1 .. Len(d.geoms) |-> Simplified(d.geoms[i])]]
    IN IF original_crs # "None" /\ is_geographic(original_crs)
       THEN LET reprojected == Own(to_crs(gdf, estimate_utm_crs(gdf)))
                projected == WithSimplify(reprojected.data)
                result == to_crs(projected, original_crs)
                w2 == Event(Event(Event(w, "to_crs", projected.crs),
                                  "simplify", projected.crs),
                            "to_crs", result.crs)
            IN WriteAndReturn(result, out, writable,
                              SetItem(reprojected, projected, w2))
       ELSE LET copied == copy(frame)
                result == WithSimplify(copied.data)
            IN WriteAndReturn(result, out, writable,
                              SetItem(copied, result,
                                      Event(w, "simplify", gdf.crs)))

simplify(src, out, writable) ==
    LET ob == Obtained(src, StartWorld(src))
    IN IF ob.kind = "raise" THEN ob
       ELSE SimplifyOf(ob.value[1], out, writable, ob.world)

\* The columns dissolve is asked to group by; the second is in no dataset.
ByValues == {"name", "state"}

\* gdf.dissolve(by=by).reset_index(): one row per value of the column.  The
\* rows of a modelled dataset share one value, so they are merged into one
\* row, which has a geometry when one of them has.
Dissolved(gdf, by) ==
    LET present == {i \in 1 .. Len(gdf.geoms) : gdf.geoms[i].validity # "missing"}
        merged ==
            [validity |-> IF present = {} THEN "missing"
                          ELSE IF \A i \in present : is_valid(gdf.geoms[i])
                          THEN "valid" ELSE "invalid",
             crs |-> gdf.crs, ops |-> <<"dissolve">>]
    IN [gdf EXCEPT !.geoms = IF Len(gdf.geoms) = 0 THEN << >> ELSE <<merged>>]

dissolve(src, by, out, writable) ==
    LET ob == Obtained(src, StartWorld(src))
    IN IF ob.kind = "raise" THEN ob
       ELSE LET gdf == ob.value[1].data
            IN IF by \notin gdf.columns
               THEN Raised("SudaPyError", "Available columns: name, geometry",
                           ob.world)
               ELSE LET result == Dissolved(gdf, by)
                    IN WriteAndReturn(result, out, writable,
                                      Event(ob.world, "dissolve", result.crs))

\* The clip geometries passed to clip: a GeoDataFrame of one polygon in
\* each CRS, or a path that does not exist.
MaskSources ==
    {[kind |-> "frame", exists |-> TRUE, readable |-> TRUE,
      data |-> Dataset(crs, <<"valid">>)] : crs \in CrsValues}
    \cup {[kind |-> "path", exists |-> FALSE, readable |-> FALSE,
           data |-> Dataset("EPSG:4326", <<"valid">>)]}

\* gpd.clip(gdf, mask): the rows of gdf that have a geometry, cut to mask.
Clipped(gdf, mask) ==
    [gdf EXCEPT !.geoms =
        SelectSeq([i \in 1 .. Len(gdf.geoms) |->
                      IF gdf.geoms[i].validity = "missing" THEN gdf.geoms[i]
                      ELSE [gdf.geoms[i] EXCEPT !.ops = Append(@, "clip")]],
                  LAMBDA g : g.validity # "missing")]

clip(src, clip_src, out, writable) ==
    LET ob == Obtained(src, StartWorld(src))
    IN IF ob.kind = "raise" THEN ob
       ELSE LET gdf == ob.value[1].data
                mk == Obtained(clip_src, ob.world)
            IN IF mk.kind = "raise" THEN mk
               ELSE LET received == mk.value[1].data
                        differ == /\ gdf.crs # "None"
                                  /\ received.crs # "None"
                                  /\ gdf.crs # received.crs
                        mask == IF differ THEN to_crs(received, gdf.crs)
                                ELSE received
                        w1 == IF differ
                              THEN Event(mk.world, "to_crs", mask.crs)
                              ELSE mk.world
                        result == Clipped(gdf, mask)
                    IN WriteAndReturn(result, out, writable,
                                      Event(w1, "clip", result.crs))

VectorCalls ==
    [fn : {"calculate_area", "buffer", "simplify", "fix_geometry"},
     src : Sources, out : OutPaths, writable : BOOLEAN]
    \cup [fn : {"reproject"}, src : Sources, out : OutPaths,
          writable : BOOLEAN, to_epsg : TargetEpsgValues]
    \cup [fn : {"dissolve"}, src : Sources, out : OutPaths,
          writable : BOOLEAN, by : ByValues]
    \cup [fn : {"clip"}, src : Sources, out : OutPaths,
          writable : BOOLEAN, clip_src : MaskSources]

InitVector == call \in VectorCalls /\ ret = Pending

CalculateArea ==
    /\ ret = Pending /\ call.fn = "calculate_area"
    /\ ret' = calculate_area(call.src, "area_m2", call.out, call.writable)
    /\ UNCHANGED call

Buffer ==
    /\ ret = Pending /\ call.fn = "buffer"
    /\ ret' = buffer(call.src, call.out, call.writable)
    /\ UNCHANGED call

FixGeometry ==
    /\ ret = Pending /\ call.fn = "fix_geometry"
    /\ ret' = fix_geometry(call.src, call.out, call.writable)
    /\ UNCHANGED call

Reproject ==
    /\ ret = Pending /\ call.fn = "reproject"
    /\ \E exc \in LibraryExceptions :
          ret' = reproject(call.src, call.to_epsg, exc, call.out, call.writable)
    /\ UNCHANGED call

Simplify ==
    /\ ret = Pending /\ call.fn = "simplify"
    /\ ret' = simplify(call.src, call.out, call.writable)
    /\ UNCHANGED call

Dissolve ==
    /\ ret = Pending /\ call.fn = "dissolve"
    /\ ret' = dissolve(call.src, call.by, call.out, call.writable)
    /\ UNCHANGED call

Clip ==
    /\ ret = Pending /\ call.fn = "clip"
    /\ ret' = clip(call.src, call.clip_src, call.out, call.writable)
    /\ UNCHANGED call

NextVector ==
    CalculateArea \/ Buffer \/ FixGeometry \/ Reproject \/ Simplify
        \/ Dissolve \/ Clip

SpecVector == InitVector /\ [][NextVector]_vars

(***************************************************************************)
(* Claims about vector/ops.py.                                             *)
(***************************************************************************)

VectorDone == ret # Pending

\* The dataset the call works on was obtained: src is a GeoDataFrame or a
\* path that exists and can be read.
DatasetObtained == call.src.kind = "frame" \/ (call.src.exists /\ call.src.readable)

AreaOrBuffer == call.fn \in {"calculate_area", "buffer"}

\* C17: calculate_area and buffer raise CRSError whenever the input dataset
\* has no CRS; no area or buffer has been computed and no directory or
\* file has been written by then, also when an out path is given.
C17_NoCrsRaisesBeforeWork ==
    (VectorDone /\ AreaOrBuffer /\ DatasetObtained
        /\ call.src.data.crs = "None")
    => /\ ret.kind = "raise" /\ ret.exc = "CRSError"
       /\ ret.world.events = << >>
       /\ ret.world.files = {} /\ ret.world.dirs = {}

C17_Witness ==
    /\ VectorDone /\ call.fn = "buffer" /\ DatasetObtained
    /\ call.src.data.crs = "None" /\ Len(call.src.data.geoms) > 0
    /\ call.out # << >> /\ Lower(call.out[1].suffix) \in DOMAIN DriverOf
    /\ call.writable
    /\ ret.exc = "CRSError"

\* C18: for every input dataset with a CRS, geographic or projected, the
\* dataset buffer returns is in the input's CRS, and so is every geometry
\* of it: the temporary UTM projection does not show in the result.
C18_BufferKeepsOriginalCrs ==
    (VectorDone /\ call.fn = "buffer" /\ ret.kind = "return")
    => /\ call.src.data.crs # "None"
       /\ ret.value[1].crs = call.src.data.crs
       /\ \A i \in 1 .. Len(ret.value[1].geoms) :
             ret.value[1].geoms[i].validity # "missing"
             => /\ ret.value[1].geoms[i].crs = call.src.data.crs
                /\ ret.value[1].geoms[i].ops = <<"buffer">>

C18_Witness ==
    /\ VectorDone /\ call.fn = "buffer" /\ ret.kind = "return"
    /\ is_geographic(call.src.data.crs)
    /\ Len(ret.value[1].geoms) > 0
    /\ ret.value[1].geoms[1].ops = <<"buffer">>
    /\ ret.value[1].crs = "EPSG:4326"
    /\ Len(ret.world.events) = 3
    /\ ret.world.events[2] = [op |-> "buffer", crs |-> "EPSG:32636"]
    /\ ret.world.events[3] = [op |-> "to_crs", crs |-> "EPSG:4326"]

GeographicWarnings == {AreaGeographicWarning, BufferGeographicWarning}

\* C19: a call of calculate_area or buffer on a dataset with a geographic
\* CRS emits exactly one warning, the one about the geographic CRS; a call
\* on a dataset with a projected CRS emits none.
C19_OneWarningIffGeographic ==
    (VectorDone /\ AreaOrBuffer /\ DatasetObtained
        /\ call.src.data.crs # "None")
    => IF is_geographic(call.src.data.crs)
       THEN /\ Len(ret.world.warnings) = 1
            /\ ret.world.warnings[1] =
                  IF call.fn = "buffer" THEN BufferGeographicWarning
                  ELSE AreaGeographicWarning
       ELSE ret.world.warnings = << >>

C19_Witness ==
    /\ VectorDone /\ call.fn = "calculate_area" /\ DatasetObtained
    /\ is_geographic(call.src.data.crs)
    /\ ret.kind = "return"
    /\ ret.world.warnings = <<AreaGeographicWarning>>
    /\ "area_m2" \in ret.value[1].columns

FixReturned == VectorDone /\ call.fn = "fix_geometry" /\ ret.kind = "return"

SameRowsValidUnchanged ==
    /\ Len(ret.value[1].geoms) = Len(call.src.data.geoms)
    /\ \A i \in 1 .. Len(call.src.data.geoms) :
          is_valid(call.src.data.geoms[i])
          => ret.value[1].geoms[i] = call.src.data.geoms[i]

OutputWritable ==
    call.out = << >>
    \/ (Lower(call.out[1].suffix) \in DOMAIN DriverOf /\ call.writable)

\* C21: for every resolvable target EPSG code reproject returns a dataset
\* in the requested CRS with as many features as the input; for an
\* unresolvable code it raises CRSError and neither a directory nor a file
\* is written, also when an out path is given.
C21_ReprojectToRequestedEpsg ==
    (VectorDone /\ call.fn = "reproject" /\ DatasetObtained /\ OutputWritable)
    => IF call.to_epsg \in EpsgDatabase
       THEN /\ ret.kind = "return"
            /\ ret.value[1].crs = "EPSG:" \o ToString(call.to_epsg)
            /\ Len(ret.value[1].geoms) = Len(call.src.data.geoms)
       ELSE /\ ret.kind = "raise" /\ ret.exc = "CRSError"
            /\ ret.world.files = {} /\ ret.world.dirs = {}

(***************************************************************************)
(* cli/main.py: _handle_error, the batch command, the command wrappers     *)
(* around one operation, and the init command.                             *)
(*                                                                         *)
(* call is the command line and what the command finds on disk; ret is the *)
(* run of the command: where it is, what it printed and attempted, what it *)
(* created, and its exit code (<<code>> once the command has ended).       *)
(***************************************************************************)

\* Entries of the input directory of batch.
MaxFiles == 3

\* File names, listed in sorted order.
FileNames ==
    <<[name |-> "a.gpkg", suffix |-> ".gpkg"],
      [name |-> "b.SHP", suffix |-> ".SHP"],
      [name |-> "notes.txt", suffix |-> ".txt"],
      [name |-> "z.geojson", suffix |-> ".geojson"]>>

DirEntries ==
    {FileNames[i] : i \in {j \in 1 .. Len(FileNames) : j <= MaxFiles}}

\* The orders input_dir.iterdir() may yield the entries of a directory in.
Listings ==
    UNION {{s \in [1 .. Cardinality(d) -> d] :
               \A i, j \in 1 .. Cardinality(d) : i # j => s[i] # s[j]} :
           d \in SUBSET DirEntries}

\* SUPPORTED_EXTS
SUPPORTED_EXTS == {".gpkg", ".geojson", ".json", ".shp"}

Rank(f) == CHOOSE i \in 1 .. Len(FileNames) : FileNames[i] = f

RECURSIVE sorted(_)
\* sorted(files): ascending by name.
sorted(files) ==
    IF files = {} THEN << >>
    ELSE LET first == CHOOSE f \in files : \A g \in files : Rank(f) <= Rank(g)
         IN <<first>> \o sorted(files \ {first})

AsListed(listing) ==
    SelectSeq(listing, LAMBDA f : Lower(f.suffix) \in SUPPORTED_EXTS)

\* sorted(f for f in input_dir.iterdir() if f.suffix.lower() in SUPPORTED_EXTS)
MatchingFiles(listing) ==
    sorted({listing[i] : i \in {j \in 1 .. Len(listing) :
                                   Lower(listing[j].suffix) \in SUPPORTED_EXTS}})

\* The operations batch dispatches on.
BatchOperations ==
    {"reproject", "clip", "buffer", "area", "simplify", "fix-geometry"}

\* The option each operation of batch checks for None.
RequiredOption(operation) ==
    IF operation = "reproject" THEN {"--to"}
    ELSE IF operation = "clip" THEN {"--clip"}
    ELSE IF operation = "buffer" THEN {"--distance"}
    ELSE IF operation = "simplify" THEN {"--tolerance"}
    ELSE {}

\* Base class of each exception class: typer.Exit is click's Exit, a
\* RuntimeError.
BaseClass ==
    [c \in {"typer.Exit", "RuntimeError", "SudaPyError", "OSError",
            "Exception"} |->
        IF c = "typer.Exit" THEN "RuntimeError"
        ELSE IF c = "Exception" THEN "BaseException"
        ELSE "Exception"]

RECURSIVE issubclass(_, _)
issubclass(c, base) ==
    IF c = base THEN TRUE
    ELSE IF c \in DOMAIN BaseClass THEN issubclass(BaseClass[c], base)
    ELSE FALSE

ExceptNeverExit(exc) == exc # "typer.Exit" /\ issubclass(exc, "Exception")

\* except Exception as exc
ExceptException(exc) == issubclass(exc, "Exception")

\* _handle_error(exc): prints the error and raises typer.Exit(code=1).
handle_error(message) ==
    [printed |-> <<"Error: " \o message>>, raises |-> "typer.Exit",
     code |-> <<1>>]

\* The statements of the try block of batch for the file f: what it
\* prints, the exception it ends with ("" for none), and whether the
\* vector operation was called on f.
TryBlock(operation, given, f, failing) ==
    IF operation \notin BatchOperations
    THEN [handled |-> <<handle_error("Unknown operation")>>, called |-> FALSE,
          raises |-> "typer.Exit"]
    ELSE IF ~(RequiredOption(operation) \subseteq given)
    THEN [handled |-> <<handle_error("option is required")>>, called |-> FALSE,
          raises |-> "typer.Exit"]
    ELSE IF f \in failing
    THEN [handled |-> << >>, called |-> TRUE, raises |-> "SudaPyError"]
    ELSE [handled |-> << >>, called |-> TRUE, raises |-> ""]

\* The paths init creates, in the order it creates them.
InitFolders == <<"data_raw", "data_clean", "outputs", "maps", "scripts">>

InitFiles == <<"README.md", "scripts/process.py">>

InitPathsFoldersOnly == InitFolders

InitPaths == InitFolders \o InitFiles

\* What is at a path before init runs.
PathStates == {"absent", "file", "directory"}

BatchCommands ==
    [cmd : {"batch"},
     operation : BatchOperations \cup {"dissolve"},
     given : SUBSET {"--to", "--clip", "--distance", "--tolerance"},
     listing : Listings,
     failing : SUBSET DirEntries]

\* A command that wraps one operation in try / except Exception /
\* _handle_error, such as vector area.
WrapperCommands == [cmd : {"vector area"}, raises : {"", "SudaPyError", "OSError"}]

\* failing_at is the step of InitPaths at which the disk refuses, 0 for
\* none.
InitCommands ==
    [cmd : {"init"}, root : PathStates, failing_at : 0 .. Len(InitPaths)]

CliCalls == BatchCommands \cup WrapperCommands \cup InitCommands

Running ==
    [pc |-> "start", files |-> << >>, next |-> 1, ok_count |-> 0,
     attempted |-> << >>, called |-> << >>, printed |-> << >>,
     handle_errors |-> 0, created |-> {}, exit |-> << >>]

InitCli == call \in CliCalls /\ ret = Running

Ended(r, code) == [r EXCEPT !.pc = "done", !.exit = <<code>>]

\* batch up to the loop: list the files, leave with code 1 when there are
\* none, create the output directory.
BatchStart ==
    /\ call.cmd = "batch" /\ ret.pc = "start"
    /\ LET files == MatchingFiles(call.listing)
       IN ret' = IF files = << >>
                 THEN Ended([ret EXCEPT !.printed = <<"No vector files found">>],
                            1)
                 ELSE [ret EXCEPT !.pc = "loop", !.files = files,
                                  !.created = {"output_dir"},
                                  !.printed = <<"Processing">>]
    /\ UNCHANGED call

\* One pass of the loop of batch: the try block for the next file and the
\* except clause.
BatchFile ==
    /\ call.cmd = "batch" /\ ret.pc = "loop" /\ ret.next <= Len(ret.files)
    /\ LET f == ret.files[ret.next]
           body == TryBlock(call.operation, call.given, f, call.failing)
           said == IF body.handled = << >> THEN << >>
                   ELSE body.handled[1].printed
           seen == [ret EXCEPT !.attempted = Append(@, f),
                               !.called = IF body.called THEN Append(@, f) ELSE @,
                               !.handle_errors = @ + Len(body.handled),
                               !.printed = @ \o said,
                               !.next = @ + 1]
       IN ret' = IF body.raises = ""
                 THEN [seen EXCEPT !.ok_count = @ + 1,
                                   !.printed = Append(@, "OK " \o f.name)]
                 ELSE IF ExceptException(body.raises)
                 THEN [seen EXCEPT !.printed = Append(@, "FAIL " \o f.name)]
                 ELSE Ended(seen, body.handled[1].code[1])
    /\ UNCHANGED call

\* After the loop: the count is printed and the command returns.
BatchEnd ==
    /\ call.cmd = "batch" /\ ret.pc = "loop" /\ ret.next > Len(ret.files)
    /\ ret' = Ended([ret EXCEPT !.printed = Append(@, "files processed")], 0)
    /\ UNCHANGED call

\* try: operation(...) except Exception as exc: _handle_error(exc)
Wrapper ==
    /\ call.cmd = "vector area" /\ ret.pc = "start"
    /\ ret' = IF call.raises # "" /\ ExceptException(call.raises)
              THEN LET h == handle_error(call.raises)
                   IN Ended([ret EXCEPT !.printed = h.printed,
                                        !.handle_errors = 1], h.code[1])
              ELSE Ended([ret EXCEPT !.printed = <<"table">>], 0)
    /\ UNCHANGED call

\* init: typer.Exit(code=1) when the root exists; otherwise the folders and
\* the two files are created in order, up to the step the disk refuses (an
\* uncaught OSError ends the command with code 1).
InitProject ==
    /\ call.cmd = "init" /\ ret.pc = "start"
    /\ ret' = IF call.root # "absent"
              THEN Ended([ret EXCEPT !.printed = <<"Error: already exists">>], 1)
              ELSE LET done == IF call.failing_at = 0 THEN Len(InitPaths)
                               ELSE call.failing_at - 1
                       made == {InitPaths[i] : i \in 1 .. done}
                   IN IF call.failing_at = 0
                      THEN Ended([ret EXCEPT !.created = {"root"} \cup made,
                                             !.printed = <<"Project created">>],
                                 0)
                      ELSE Ended([ret EXCEPT
                                     !.created = IF call.failing_at = 1 THEN {}
                                                 ELSE {"root"} \cup made], 1)
    /\ UNCHANGED call

NextCli == BatchStart \/ BatchFile \/ BatchEnd \/ Wrapper \/ InitProject

SpecCli == InitCli /\ [][NextCli]_vars

(***************************************************************************)
(* Claims about cli/main.py.                                               *)
(***************************************************************************)

\* C22: once _handle_error has been invoked the command has ended with
\* exit code 1; in batch, with an unknown operation or a missing required
\* option, that is at the first file, and no further file is taken up.
C22_HandleErrorEndsCommand ==
    ret.handle_errors > 0
    => /\ ret.pc = "done" /\ ret.exit = <<1>>
       /\ ret.handle_errors = 1
       /\ call.cmd = "batch" => Len(ret.attempted) = 1

BatchWellFormed ==
    /\ call.cmd = "batch"
    /\ call.operation \in BatchOperations
    /\ RequiredOption(call.operation) \subseteq call.given

Matching(f) == Lower(f.suffix) \in {".gpkg", ".geojson", ".json", ".shp"}

\* C23: in batch with a supported operation and its required option, the
\* files attempted so far are matching files of the directory in ascending
\* name order, none twice; when the count is reported every matching file
\* was attempted, failures of earlier files notwithstanding, and the count
\* is the number of files whose operation did not raise, between 0 and the
\* number of files.
C23_BatchAttemptsEveryFileOnce ==
    BatchWellFormed
    => /\ \A i \in 1 .. Len(ret.attempted) :
             /\ Matching(ret.attempted[i])
             /\ \E k \in 1 .. Len(call.listing) :
                   call.listing[k] = ret.attempted[i]
       /\ \A i, j \in 1 .. Len(ret.attempted) :
             i < j => Rank(ret.attempted[i]) < Rank(ret.attempted[j])
       /\ ret.called = ret.attempted
       /\ (ret.pc = "done" /\ ret.exit = <<0>>)
          => /\ \A k \in 1 .. Len(call.listing) :
                   Matching(call.listing[k])
                   => \E i \in 1 .. Len(ret.attempted) :
                         ret.attempted[i] = call.listing[k]
             /\ ret.ok_count =
                   Cardinality({i \in 1 .. Len(ret.attempted) :
                                   ret.attempted[i] \notin call.failing})
             /\ 0 <= ret.ok_count /\ ret.ok_count <= Len(ret.attempted)

\* Three entries listed out of order, one of them not a vector file; the
\* first vector file fails and the second is still processed.
C23_Witness ==
    /\ BatchWellFormed /\ ret.pc = "done" /\ ret.exit = <<0>>
    /\ Len(call.listing) = 3 /\ Len(ret.attempted) = 2
    /\ Rank(call.listing[1]) > Rank(call.listing[3])
    /\ ret.attempted[1] \in call.failing
    /\ ret.attempted[2] \notin call.failing
    /\ ret.ok_count = 1

\* C24: init with an existing target path ends with code 1 and creates
\* nothing; otherwise, when it completes, the five folders and the two
\* files exist under the new root.
C24_InitAllOrNothing ==
    (call.cmd = "init" /\ ret.pc = "done")
    => IF call.root # "absent"
       THEN ret.exit = <<1>> /\ ret.created = {}
       ELSE ret.exit = <<0>>
            => {"root", "data_raw", "data_clean", "outputs", "maps",
                "scripts", "README.md", "scripts/process.py"}
               \subseteq ret.created

C24_Witness ==
    /\ call.cmd = "init" /\ ret.pc = "done"
    /\ call.root = "absent" /\ ret.exit = <<0>>
    /\ "scripts/process.py" \in ret.created

(***************************************************************************)
(* raster/ops.py: mosaic, reproject_raster and resample.                   *)
(*                                                                         *)
(* call is the arguments and what the function finds on disk; ret is the   *)
(* outcome, whose world holds the trace of what was done to each raster    *)
(* dataset (open, meta, read, merge, close), the directories created and   *)
(* the files written.                                                      *)
(***************************************************************************)

\* Entries of the directory given to mosaic.
MaxTiles == 3

\* Names of directory entries, listed in sorted order.
TileNames ==
    <<[name |-> "a.tif", suffix |-> ".tif"],
      [name |-> "b.TIFF", suffix |-> ".TIFF"],
      [name |-> "notes.txt", suffix |-> ".txt"],
      [name |-> "z.vrt", suffix |-> ".vrt"]>>

TileEntries ==
    {TileNames[i] : i \in {j \in 1 .. Len(TileNames) : j <= MaxTiles}}

\* _RASTER_EXTS
RASTER_EXTS == {".tif", ".tiff", ".img", ".vrt"}

TileRank(f) == CHOOSE i \in 1 .. Len(TileNames) : TileNames[i] = f

RECURSIVE sorted_tiles(_)
\* sorted(...) over paths: ascending by name.
sorted_tiles(files) ==
    IF files = {} THEN << >>
    ELSE LET first == CHOOSE f \in files :
                         \A g \in files : TileRank(f) <= TileRank(g)
         IN <<first>> \o sorted_tiles(files \ {first})

\* sorted(f for f in src_dir.iterdir() if f.suffix.lower() in _RASTER_EXTS)
raster_files(entries) ==
    sorted_tiles({f \in entries : Lower(f.suffix) \in RASTER_EXTS})

RasterWorld == [trace |-> << >>, dirs |-> {}, files |-> {}]

\* Something done to the dataset of the file called tile.
Did(w, op, tile) ==
    [w EXCEPT !.trace = Append(@, [op |-> op, tile |-> tile])]

RECURSIVE DidEach(_, _, _)
\* op done to each tile of a list, in order.
DidEach(w, op, tiles) ==
    IF tiles = << >> THEN w
    ELSE DidEach(Did(w, op, tiles[1].name), op, Tail(tiles))

RECURSIVE OpenedBeforeFailure(_, _)
\* [rasterio.open(f) for f in raster_files]: the files opened before the
\* first one rasterio cannot open.
OpenedBeforeFailure(files, broken) ==
    IF files = << >> \/ files[1] \in broken THEN << >>
    ELSE <<files[1]>> \o OpenedBeforeFailure(Tail(files), broken)

\* What reading .meta of a closed dataset does depends on the rasterio
\* build: the values cached at open, or RasterioIOError.
ClosedMetaOutcomes == {"cached", "raises"}

\* out.parent.mkdir(...) and with rasterio.open(out, "w") as dst: ...
WriteRaster(w, write_ok) ==
    LET made == [w EXCEPT !.dirs = @ \cup {"out.parent"}]
    IN IF ~write_ok THEN Raised("RasterioIOError", "", made)
       ELSE Returned("out",
                Did(Did(Did([made EXCEPT !.files = @ \cup {"out"}],
                            "open_w", "out"), "write", "out"), "close", "out"))

mosaic(is_dir, entries, broken, merge_ok, closed_meta, write_ok) ==
    LET files == raster_files(entries)
        datasets == OpenedBeforeFailure(files, broken)
        opened == DidEach(RasterWorld, "open", datasets)
        merged == Did(opened, "merge", "*")
        closed == DidEach(merged, "close", datasets)
    IN IF ~is_dir THEN Raised("FileFormatError", "", RasterWorld)
       ELSE IF files = << >>
       THEN Raised("FileFormatError",
                   "Supported extensions: .tif, .tiff, .img, .vrt", RasterWorld)
       ELSE IF Len(datasets) < Len(files)
       THEN Raised("RasterioIOError", "", opened)
       ELSE IF ~merge_ok THEN Raised("RasterioIOError", "", closed)
       ELSE LET after_meta == Did(closed, "meta", datasets[1].name)
            IN IF closed_meta = "raises"
               THEN Raised("RasterioIOError", "", after_meta)
               ELSE WriteRaster(after_meta, write_ok)

\* keys of _resampling_map, in the order of the source.
ResamplingNames == <<"nearest", "bilinear", "cubic">>

resampling_map_any ==
    [m \in {"nearest", "bilinear", "cubic", "lanczos"} |-> "Resampling." \o m]

\* _resampling_map
resampling_map ==
    [m \in {"nearest", "bilinear", "cubic"} |-> "Resampling." \o m]

\* What the functions say for an unknown method.
UnknownMethod(w) ==
    Raised("SudaPyError", "Supported: " \o Join(ResamplingNames, ", "), w)

reproject_raster(method, src_exists, to_epsg, exc, open_ok, write_ok) ==
    IF method \notin DOMAIN resampling_map THEN UnknownMethod(RasterWorld)
    ELSE IF ~src_exists THEN Raised("FileFormatError", "", RasterWorld)
    ELSE LET dst_crs == validate_epsg(to_epsg, exc)
         IN IF dst_crs.kind = "raise"
            THEN Raised(dst_crs.exc,
                        IF dst_crs.exc = "CRSError" THEN dst_crs.hint ELSE "",
                        RasterWorld)
            ELSE IF ~open_ok THEN Raised("RasterioIOError", "", RasterWorld)
            ELSE LET ds == Did(Did(RasterWorld, "open", "src"), "meta", "src")
                     made == [ds EXCEPT !.dirs = @ \cup {"out.parent"}]
                 IN IF ~write_ok
                    THEN Raised("RasterioIOError", "", Did(made, "close", "src"))
                    ELSE Returned("out",
                            Did(Did(Did(Did(
                                [made EXCEPT !.files = @ \cup {"out"}],
                                "open_w", "out"), "read", "src"),
                                "close", "out"), "close", "src"))

resample(method, src_exists, open_ok, write_ok) ==
    IF ~src_exists THEN Raised("FileFormatError", "", RasterWorld)
    ELSE IF method \notin DOMAIN resampling_map THEN UnknownMethod(RasterWorld)
    ELSE IF ~open_ok THEN Raised("RasterioIOError", "", RasterWorld)
    ELSE WriteRaster(
            Did(Did(Did(Did(RasterWorld, "open", "src"), "read", "src"),
                    "meta", "src"), "close", "src"),
            write_ok)

MethodNames == {"nearest", "bilinear", "cubic", "lanczos"}

RasterCalls ==
    [fn : {"mosaic"}, is_dir : BOOLEAN, entries : SUBSET TileEntries,
     broken : SUBSET TileEntries, merge_ok : BOOLEAN,
     closed_meta : ClosedMetaOutcomes, write_ok : BOOLEAN]
    \cup [fn : {"reproject_raster"}, method : MethodNames,
          src_exists : BOOLEAN, to_epsg : TargetEpsgValues,
          open_ok : BOOLEAN, write_ok : BOOLEAN]
    \cup [fn : {"resample"}, method : MethodNames, src_exists : BOOLEAN,
          open_ok : BOOLEAN, write_ok : BOOLEAN]

InitRaster == call \in RasterCalls /\ ret = Pending

Mosaic ==
    /\ ret = Pending /\ call.fn = "mosaic"
    /\ ret' = mosaic(call.is_dir, call.entries, call.broken, call.merge_ok,
                     call.closed_meta, call.write_ok)
    /\ UNCHANGED call

ReprojectRaster ==
    /\ ret = Pending /\ call.fn = "reproject_raster"
    /\ \E exc \in LibraryExceptions :
          ret' = reproject_raster(call.method, call.src_exists, call.to_epsg,
                                  exc, call.open_ok, call.write_ok)
    /\ UNCHANGED call

Resample ==
    /\ ret = Pending /\ call.fn = "resample"
    /\ ret' = resample(call.method, call.src_exists, call.open_ok,
                       call.write_ok)
    /\ UNCHANGED call

NextRaster == Mosaic \/ ReprojectRaster \/ Resample

SpecRaster == InitRaster /\ [][NextRaster]_vars

(***************************************************************************)
(* Claims about mosaic, reproject_raster and resample.                     *)
(***************************************************************************)

RasterDone == ret # Pending

Trace == ret.world.trace

\* C25: when mosaic has returned or raised, every dataset it opened has
\* been closed.
C25_MosaicClosesEveryDataset ==
    (RasterDone /\ call.fn = "mosaic")
    => \A i \in 1 .. Len(Trace) :
          Trace[i].op = "open"
          => \E j \in 1 .. Len(Trace) :
                j > i /\ Trace[j].op = "close" /\ Trace[j].tile = Trace[i].tile

\* C26: mosaic reads no property of a dataset after closing it: every
\* read of a tile's metadata comes before the close of that tile.
C26_NoMetaAfterClose ==
    (RasterDone /\ call.fn = "mosaic")
    => \A i, j \in 1 .. Len(Trace) :
          (Trace[i].op = "close" /\ Trace[j].op = "meta"
              /\ Trace[i].tile = Trace[j].tile)
          => j < i

ResamplingCall == RasterDone /\ call.fn \in {"reproject_raster", "resample"}

NothingTouched ==
    /\ ret.kind = "raise"
    /\ Trace = << >> /\ ret.world.dirs = {} /\ ret.world.files = {}

UnknownMethodError ==
    /\ ret.exc = "SudaPyError"
    /\ ret.hint = "Supported: nearest, bilinear, cubic"
    /\ NothingTouched

MissingSourceError == ret.exc = "FileFormatError" /\ NothingTouched

BadMethod == call.method \notin {"nearest", "bilinear", "cubic"}

\* C30 as stated: an unknown method name always gives SudaPyError listing
\* the methods, and a missing source always gives FileFormatError, with no
\* raster opened, no directory created and no file written.
C30_UnknownMethodOrMissingSource ==
    ResamplingCall
    => /\ BadMethod => UnknownMethodError
       /\ ~call.src_exists => MissingSourceError

\* C30: with the source present an unknown method name gives SudaPyError
\* listing the methods; with a known method a missing source gives
\* FileFormatError; with both faults reproject_raster, which looks at the
\* method first, raises SudaPyError and resample, which looks at the source
\* first, raises FileFormatError.  In each case no raster is opened, no
\* directory created and no file written.
C30_FirstFaultWins ==
    ResamplingCall
    => /\ (BadMethod /\ call.src_exists) => UnknownMethodError
       /\ (~BadMethod /\ ~call.src_exists) => MissingSourceError
       /\ (BadMethod /\ ~call.src_exists)
          => IF call.fn = "reproject_raster" THEN UnknownMethodError
             ELSE MissingSourceError

C30_Witness ==
    /\ ResamplingCall /\ call.fn = "resample"
    /\ BadMethod /\ call.src_exists /\ call.open_ok /\ call.write_ok
    /\ ret.exc = "SudaPyError"

(***************************************************************************)
(* Claims about the output path and the caller's dataset in vector/ops.py. *)
(***************************************************************************)

UnsupportedOut ==
    /\ call.out # << >>
    /\ Lower(call.out[1].suffix) \notin {".gpkg", ".geojson", ".json", ".shp"}

SuffixError ==
    /\ ret.kind = "raise" /\ ret.exc = "FileFormatError"
    /\ ret.hint = "Use one of: .gpkg, .geojson, .json, .shp"

FileSystemUnchanged == ret.world.dirs = {} /\ ret.world.files = {}

\* C27 as stated: with an out path of unsupported suffix every vector
\* operation raises FileFormatError listing the supported suffixes, and
\* neither a directory nor a file is created.
C27_UnsupportedSuffixAlwaysFileFormatError ==
    (VectorDone /\ UnsupportedOut) => (SuffixError /\ FileSystemUnchanged)

\* The call gets as far as writing its result: the dataset (and the clip
\* geometry) can be obtained and the operation's own checks pass.
ReachesWrite ==
    /\ DatasetObtained
    /\ call.fn \in {"calculate_area", "buffer"} => call.src.data.crs # "None"
    /\ call.fn = "reproject"
       => call.to_epsg \in EpsgDatabase /\ call.src.data.crs # "None"
    /\ call.fn = "dissolve" => call.by \in call.src.data.columns
    /\ call.fn = "clip" => call.clip_src.kind = "frame"

\* C27: with an out path of unsupported suffix every vector operation
\* raises and neither a directory nor a file is created; an operation that
\* gets as far as writing its result raises FileFormatError listing the
\* supported suffixes (one that fails earlier raises its own error).
C27_UnsupportedSuffixLeavesDiskAlone ==
    (VectorDone /\ UnsupportedOut)
    => /\ ret.kind = "raise"
       /\ FileSystemUnchanged
       /\ ReachesWrite => SuffixError

C27_Witness ==
    /\ VectorDone /\ UnsupportedOut /\ call.fn = "buffer" /\ call.writable
    /\ is_geographic(call.src.data.crs)
    /\ Len(ret.world.events) = 3
    /\ ret.exc = "FileFormatError" /\ ret.world.dirs = {}

\* C29: after a call of a vector operation on a GeoDataFrame of the
\* caller, returned or raised, the caller's dataset has the columns,
\* geometries and CRS it had before; calculate_area adds its column to the
\* returned dataset only.
C29_CallerDatasetUntouched ==
    (VectorDone /\ call.src.kind = "frame")
    => /\ ret.world.caller = <<call.src.data>>
       /\ (call.fn = "calculate_area" /\ ret.kind = "return")
          => /\ "area_m2" \in ret.value[1].columns
             /\ "area_m2" \notin ret.world.caller[1].columns

C29_Witness ==
    /\ VectorDone /\ call.src.kind = "frame" /\ ret.kind = "return"
    /\ call.fn = "calculate_area"
    /\ Len(call.src.data.geoms) > 0
    /\ ret.value[1] # call.src.data
    /\ ret.world.caller = <<call.src.data>>

(***************************************************************************)
(* Claims relating suggest_utm_zone to the registry.                       *)
(***************************************************************************)

\* C28: every Adindan suggestion suggest_utm_zone returns, and every
\* WGS 84 suggestion it returns for Northern zones 35, 36 and 37, has an
\* epsg for which get_preset returns a preset, whose name is the name of
\* the suggestion.
C28_SuggestionsAreRegistered ==
    (SuggestDone /\ ret.kind = "return")
    => \A i \in 1 .. Len(ret.value) :
          (ret.value[i].datum = "Adindan"
              \/ (ret.value[i].hemisphere = "N"
                     /\ ret.value[i].zone \in {35, 36, 37}))
          => LET found == get_preset(ObjectsAtStart, ListAtStart,
                                     ret.value[i].epsg)
             IN /\ found # << >>
                /\ ObjectsAtStart[found[1]].name = ret.value[i].name

C28_Witness ==
    /\ SuggestDone /\ ret.kind = "return" /\ Len(ret.value) = 2
    /\ ret.value[2].datum = "Adindan" /\ ret.value[2].epsg = 20137
    /\ get_preset(ObjectsAtStart, ListAtStart, 20137) = <<8>>
    /\ ObjectsAtStart[8].name = "Adindan / UTM zone 37N"

====
